---- MODULE Spec2Model ----
(***************************************************************************)
(* Model of na-emailer's request handler (app/main.py: handle) and of the  *)
(* pure helpers it calls (_parse_recipients, _recipients_from_event,       *)
(* _extract_raw_mime, _ctx_from_cloudevent).                               *)
(*                                                                         *)
(* Python values are tagged records:                                       *)
(*   [t |-> "none"]                 None                                   *)
(*   [t |-> "str",   s |-> chars]   str, a sequence of one-character       *)
(*                                  strings                                *)
(*   [t |-> "int",   n |-> i]       int                                    *)
(*   [t |-> "list",  l |-> vals]    list of values                         *)
(*   [t |-> "bytes", b |-> bytes]   bytes, a sequence of byte tokens       *)
(*   [t |-> "dict",  d |-> f]       dict, a function from keys to values   *)
(***************************************************************************)
EXTENDS Integers, Sequences, FiniteSets, TLC

VARIABLES
    pc,         \* position of the request inside handle()
    settings,   \* the Settings object returned by load_settings()
    ce,         \* the inbound envelope (what from_http is given)
    ctx,        \* the EventContext built by _ctx_from_cloudevent
    rcpt,       \* (recipients, email_cc, email_bcc) locals of handle()
    raw_mime,   \* the raw_mime local of handle()
    msg,        \* the EmailMessage built by handle()
    response,   \* the (body, status) pair handle() returned
    disp,       \* which return statement of handle() produced the response
    calls,      \* collaborator calls made for this request
    sent,       \* the messages handed to client.send(), in order
    matches,    \* what matches_filters answered for this request
    raised,     \* which call of handle() raised, if any
    smtp,       \* the calls YagmailClient.send() made to self._smtp.send()
    config,     \* the configuration of the process, which load_settings() reads
    fnPc,       \* position of a pure-function run
    fnArg,      \* argument of the pure function under check
    fnOut,      \* its result
    fnOut2,     \* result of the second application (round trip)
    inflight    \* the handle() runs under way at once, each with its locals

vars == <<pc, settings, ce, ctx, rcpt, raw_mime, msg, response, disp, calls,
          sent, matches, raised, smtp, config, fnPc, fnArg, fnOut, fnOut2,
          inflight>>

reqVars == <<pc, settings, ce, ctx, rcpt, raw_mime, msg, response, disp,
             calls, sent, matches, raised, smtp, config>>

fnVars == <<fnPc, fnArg, fnOut, fnOut2>>

-----------------------------------------------------------------------------
(* Python values *)

PyNone == [t |-> "none"]

PyStr(chars) == [t |-> "str", s |-> chars]

PyInt(i) == [t |-> "int", n |-> i]

PyList(vals) == [t |-> "list", l |-> vals]

PyBytes(bs) == [t |-> "bytes", b |-> bs]

PyDict(f) == [t |-> "dict", d |-> f]

NoEntries == [k \in {} |-> PyNone]

EmptyDict == PyDict(NoEntries)

\* bool(v): Python truthiness, as used by `or`, `and`, `not` and `if`
Truthy(v) ==
    CASE v.t = "none"  -> FALSE
      [] v.t = "str"   -> Len(v.s) > 0
      [] v.t = "int"   -> v.n # 0
      [] v.t = "list"  -> Len(v.l) > 0
      [] v.t = "bytes" -> Len(v.b) > 0
      [] v.t = "dict"  -> DOMAIN v.d # {}

\* a or b
PyOr(a, b) == IF Truthy(a) THEN a ELSE b

\* d.get(k): the value under k, None when the key is absent
DictGet(d, k) == IF k \in DOMAIN d THEN d[k] ELSE PyNone

-----------------------------------------------------------------------------
(* str methods *)

\* the characters str.strip() removes, those str.isspace() accepts: space,
\* \t \n \r \f, then U+000B, U+001C to U+001F, U+0085, U+00A0 and U+1680.
\* (U+2000 to U+200A, U+2028, U+2029, U+202F, U+205F and U+3000 are whitespace
\* too; no string of this module can hold them.)
Whitespace ==
    {" ", "\t", "\n", "\r", "\f", "", "", "", "", "", "", " ", " "}

\* the characters of this module's strings that str.lower() changes (CPython 3.11,
\* Unicode 14.0): A-Z first, then the other 629 in code point order
UpperLetters ==
    <<"A", "B", "C", "D", "E", "F", "G", "H", "I", "J", "K", "L",
      "M", "N", "O", "P", "Q", "R", "S", "T", "U", "V", "W", "X",
      "Y", "Z", "À", "Á", "Â", "Ã", "Ä", "Å", "Æ", "Ç", "È", "É",
      "Ê", "Ë", "Ì", "Í", "Î", "Ï", "Ð", "Ñ", "Ò", "Ó", "Ô", "Õ",
      "Ö", "Ø", "Ù", "Ú", "Û", "Ü", "Ý", "Þ", "Ɓ", "Ƃ", "Ƅ", "Ɔ",
      "Ƈ", "Ɖ", "Ɗ", "Ƌ", "Ǝ", "Ə", "Ɛ", "Ƒ", "Ɠ", "Ɣ", "Ɩ", "Ɨ",
      "Ƙ", "Ɯ", "Ɲ", "Ɵ", "Ơ", "Ƣ", "Ƥ", "Ʀ", "Ƨ", "Ʃ", "Ƭ", "Ʈ",
      "Ư", "Ʊ", "Ʋ", "Ƴ", "Ƶ", "Ʒ", "Ƹ", "Ƽ", "Ǆ", "ǅ", "Ǉ", "ǈ",
      "Ǌ", "ǋ", "Ǎ", "Ǐ", "Ǒ", "Ǔ", "Ǖ", "Ǘ", "Ǚ", "Ǜ", "Ǟ", "Ǡ",
      "Ǣ", "Ǥ", "Ǧ", "Ǩ", "Ǫ", "Ǭ", "Ǯ", "Ǳ", "ǲ", "Ǵ", "Ƕ", "Ƿ",
      "Ǹ", "Ǻ", "Ǽ", "Ǿ", "Ά", "Έ", "Ή", "Ί", "Ό", "Ύ", "Ώ", "Α",
      "Β", "Γ", "Δ", "Ε", "Ζ", "Η", "Θ", "Ι", "Κ", "Λ", "Μ", "Ν",
      "Ξ", "Ο", "Π", "Ρ", "Σ", "Τ", "Υ", "Φ", "Χ", "Ψ", "Ω", "Ϊ",
      "Ϋ", "Ϗ", "Ϙ", "Ϛ", "Ϝ", "Ϟ", "Ϡ", "Ϣ", "Ϥ", "Ϧ", "Ϩ", "Ϫ",
      "Ϭ", "Ϯ", "ϴ", "Ϸ", "Ϲ", "Ϻ", "Ͻ", "Ͼ", "Ͽ", "Ҁ", "Ҋ", "Ҍ",
      "Ҏ", "Ґ", "Ғ", "Ҕ", "Җ", "Ҙ", "Қ", "Ҝ", "Ҟ", "Ҡ", "Ң", "Ҥ",
      "Ҧ", "Ҩ", "Ҫ", "Ҭ", "Ү", "Ұ", "Ҳ", "Ҵ", "Ҷ", "Ҹ", "Һ", "Ҽ",
      "Ҿ", "Ӏ", "Ӂ", "Ӄ", "Ӆ", "Ӈ", "Ӊ", "Ӌ", "Ӎ", "Ӑ", "Ӓ", "Ӕ",
      "Ӗ", "Ә", "Ӛ", "Ӝ", "Ӟ", "Ӡ", "Ӣ", "Ӥ", "Ӧ", "Ө", "Ӫ", "Ӭ",
      "Ӯ", "Ӱ", "Ӳ", "Ӵ", "Ӷ", "Ӹ", "Ӻ", "Ӽ", "Ӿ", "Ⴀ", "Ⴁ", "Ⴂ",
      "Ⴃ", "Ⴄ", "Ⴅ", "Ⴆ", "Ⴇ", "Ⴈ", "Ⴉ", "Ⴊ", "Ⴋ", "Ⴌ", "Ⴍ", "Ⴎ",
      "Ⴏ", "Ⴐ", "Ⴑ", "Ⴒ", "Ⴓ", "Ⴔ", "Ⴕ", "Ⴖ", "Ⴗ", "Ⴘ", "Ⴙ", "Ⴚ",
      "Ⴛ", "Ⴜ", "Ⴝ", "Ⴞ", "Ⴟ", "Ⴠ", "Ⴡ", "Ⴢ", "Ⴣ", "Ⴤ", "Ⴥ", "Ⴧ",
      "Ⴭ", "Ꭰ", "Ꭱ", "Ꭲ", "Ꭳ", "Ꭴ", "Ꭵ", "Ꭶ", "Ꭷ", "Ꭸ", "Ꭹ", "Ꭺ",
      "Ꭻ", "Ꭼ", "Ꭽ", "Ꭾ", "Ꭿ", "Ꮀ", "Ꮁ", "Ꮂ", "Ꮃ", "Ꮄ", "Ꮅ", "Ꮆ",
      "Ꮇ", "Ꮈ", "Ꮉ", "Ꮊ", "Ꮋ", "Ꮌ", "Ꮍ", "Ꮎ", "Ꮏ", "Ꮐ", "Ꮑ", "Ꮒ",
      "Ꮓ", "Ꮔ", "Ꮕ", "Ꮖ", "Ꮗ", "Ꮘ", "Ꮙ", "Ꮚ", "Ꮛ", "Ꮜ", "Ꮝ", "Ꮞ",
      "Ꮟ", "Ꮠ", "Ꮡ", "Ꮢ", "Ꮣ", "Ꮤ", "Ꮥ", "Ꮦ", "Ꮧ", "Ꮨ", "Ꮩ", "Ꮪ",
      "Ꮫ", "Ꮬ", "Ꮭ", "Ꮮ", "Ꮯ", "Ꮰ", "Ꮱ", "Ꮲ", "Ꮳ", "Ꮴ", "Ꮵ", "Ꮶ",
      "Ꮷ", "Ꮸ", "Ꮹ", "Ꮺ", "Ꮻ", "Ꮼ", "Ꮽ", "Ꮾ", "Ꮿ", "Ᏸ", "Ᏹ", "Ᏺ",
      "Ᏻ", "Ᏼ", "Ᏽ", "Ა", "Ბ", "Გ", "Დ", "Ე", "Ვ", "Ზ", "Თ", "Ი",
      "Კ", "Ლ", "Მ", "Ნ", "Ო", "Პ", "Ჟ", "Რ", "Ს", "Ტ", "Უ", "Ფ",
      "Ქ", "Ღ", "Ყ", "Შ", "Ჩ", "Ც", "Ძ", "Წ", "Ჭ", "Ხ", "Ჯ", "Ჰ",
      "Ჱ", "Ჲ", "Ჳ", "Ჴ", "Ჵ", "Ჶ", "Ჷ", "Ჸ", "Ჹ", "Ჺ", "Ჽ", "Ჾ",
      "Ჿ", "Ẁ", "Ẃ", "Ẅ", "Ẇ", "Ẉ", "Ẋ", "Ẍ", "Ẏ", "Ẑ", "Ẓ", "Ẕ",
      "ẞ", "Ạ", "Ả", "Ấ", "Ầ", "Ẩ", "Ẫ", "Ậ", "Ắ", "Ằ", "Ẳ", "Ẵ",
      "Ặ", "Ẹ", "Ẻ", "Ẽ", "Ế", "Ề", "Ể", "Ễ", "Ệ", "Ỉ", "Ị", "Ọ",
      "Ỏ", "Ố", "Ồ", "Ổ", "Ỗ", "Ộ", "Ớ", "Ờ", "Ở", "Ỡ", "Ợ", "Ụ",
      "Ủ", "Ứ", "Ừ", "Ử", "Ữ", "Ự", "Ỳ", "Ỵ", "Ỷ", "Ỹ", "Ỻ", "Ỽ",
      "Ỿ", "ᾈ", "ᾉ", "ᾊ", "ᾋ", "ᾌ", "ᾍ", "ᾎ", "ᾏ", "ᾘ", "ᾙ", "ᾚ",
      "ᾛ", "ᾜ", "ᾝ", "ᾞ", "ᾟ", "ᾨ", "ᾩ", "ᾪ", "ᾫ", "ᾬ", "ᾭ", "ᾮ",
      "ᾯ", "Ᾰ", "Ᾱ", "Ὰ", "Ά", "ᾼ", "Ὲ", "Έ", "Ὴ", "Ή", "ῌ", "Ῐ",
      "Ῑ", "Ὶ", "Ί", "Ῠ", "Ῡ", "Ὺ", "Ύ", "Ῥ", "Ὸ", "Ό", "Ὼ", "Ώ",
      "ῼ", "Ↄ", "Ⓐ", "Ⓑ", "Ⓒ", "Ⓓ", "Ⓔ", "Ⓕ", "Ⓖ", "Ⓗ", "Ⓘ", "Ⓙ",
      "Ⓚ", "Ⓛ", "Ⓜ", "Ⓝ", "Ⓞ", "Ⓟ", "Ⓠ", "Ⓡ", "Ⓢ", "Ⓣ", "Ⓤ", "Ⓥ",
      "Ⓦ", "Ⓧ", "Ⓨ", "Ⓩ", "Ⲁ", "Ⲃ", "Ⲅ", "Ⲇ", "Ⲉ", "Ⲋ", "Ⲍ", "Ⲏ",
      "Ⲑ", "Ⲓ", "Ⲕ", "Ⲗ", "Ⲙ", "Ⲛ", "Ⲝ", "Ⲟ", "Ⲡ", "Ⲣ", "Ⲥ", "Ⲧ",
      "Ⲩ", "Ⲫ", "Ⲭ", "Ⲯ", "Ⲱ", "Ⲳ", "Ⲵ", "Ⲷ", "Ⲹ", "Ⲻ", "Ⲽ", "Ⲿ",
      "Ⳁ", "Ⳃ", "Ⳅ", "Ⳇ", "Ⳉ", "Ⳋ", "Ⳍ", "Ⳏ", "Ⳑ", "Ⳓ", "Ⳕ", "Ⳗ",
      "Ⳙ", "Ⳛ", "Ⳝ", "Ⳟ", "Ⳡ", "Ⳣ", "Ⳬ", "Ⳮ", "Ⳳ", "Ꚁ", "Ꚃ", "Ꚅ",
      "Ꚇ", "Ꚉ", "Ꚋ", "Ꚍ", "Ꚏ", "Ꚑ", "Ꚓ", "Ꚕ", "Ꚗ", "Ꚙ", "Ꚛ", "Ꞁ",
      "Ꞃ", "Ꞅ", "Ꞇ", "Ꞌ", "Ɥ", "Ꞑ", "Ꞓ", "Ꞗ", "Ꞙ", "Ꞛ", "Ꞝ", "Ꞟ",
      "Ꞡ", "Ꞣ", "Ꞥ", "Ꞧ", "Ꞩ", "Ɦ", "Ɜ", "Ɡ", "Ɬ", "Ɪ", "Ʞ", "Ʇ",
      "Ʝ", "Ꭓ", "Ꞵ", "Ꞷ", "Ꞹ", "Ꞻ", "Ꞽ", "Ꞿ", "Ꟁ", "Ꟃ", "Ꞔ", "Ʂ",
      "Ᶎ", "Ꟈ", "Ꟊ", "Ꟑ", "Ꟗ", "Ꟙ", "Ꟶ">>

\* the lowercase of each, at the same index; "U+XXXX" names a character that a
\* string of this module cannot hold
LowerLetters ==
    <<"a", "b", "c", "d", "e", "f", "g", "h", "i", "j", "k", "l",
      "m", "n", "o", "p", "q", "r", "s", "t", "u", "v", "w", "x",
      "y", "z", "à", "á", "â", "ã", "ä", "å", "æ", "ç", "è", "é",
      "ê", "ë", "ì", "í", "î", "ï", "ð", "ñ", "ò", "ó", "ô", "õ",
      "ö", "ø", "ù", "ú", "û", "ü", "ý", "þ", "U+0253", "ƃ", "ƅ", "U+0254",
      "ƈ", "U+0256", "U+0257", "ƌ", "ǝ", "U+0259", "U+025B", "ƒ", "U+0260", "U+0263", "U+0269", "U+0268",
      "ƙ", "U+026F", "U+0272", "U+0275", "ơ", "ƣ", "ƥ", "ʀ", "ƨ", "ʃ", "ƭ", "ʈ",
      "ư", "ʊ", "ʋ", "ƴ", "ƶ", "ʒ", "ƹ", "ƽ", "ǆ", "ǆ", "ǉ", "ǉ",
      "ǌ", "ǌ", "ǎ", "ǐ", "ǒ", "ǔ", "ǖ", "ǘ", "ǚ", "ǜ", "ǟ", "ǡ",
      "ǣ", "ǥ", "ǧ", "ǩ", "ǫ", "ǭ", "ǯ", "ǳ", "ǳ", "ǵ", "ƕ", "ƿ",
      "ǹ", "ǻ", "ǽ", "ǿ", "ά", "έ", "ή", "ί", "ό", "ύ", "ώ", "α",
      "β", "γ", "δ", "ε", "ζ", "η", "θ", "ι", "κ", "λ", "μ", "ν",
      "ξ", "ο", "π", "ρ", "σ", "τ", "υ", "φ", "χ", "ψ", "ω", "ϊ",
      "ϋ", "ϗ", "ϙ", "ϛ", "ϝ", "ϟ", "ϡ", "ϣ", "ϥ", "ϧ", "ϩ", "ϫ",
      "ϭ", "ϯ", "θ", "ϸ", "ϲ", "ϻ", "U+037B", "U+037C", "U+037D", "ҁ", "ҋ", "ҍ",
      "ҏ", "ґ", "ғ", "ҕ", "җ", "ҙ", "қ", "ҝ", "ҟ", "ҡ", "ң", "ҥ",
      "ҧ", "ҩ", "ҫ", "ҭ", "ү", "ұ", "ҳ", "ҵ", "ҷ", "ҹ", "һ", "ҽ",
      "ҿ", "ӏ", "ӂ", "ӄ", "ӆ", "ӈ", "ӊ", "ӌ", "ӎ", "ӑ", "ӓ", "ӕ",
      "ӗ", "ә", "ӛ", "ӝ", "ӟ", "ӡ", "ӣ", "ӥ", "ӧ", "ө", "ӫ", "ӭ",
      "ӯ", "ӱ", "ӳ", "ӵ", "ӷ", "ӹ", "ӻ", "ӽ", "ӿ", "U+2D00", "U+2D01", "U+2D02",
      "U+2D03", "U+2D04", "U+2D05", "U+2D06", "U+2D07", "U+2D08", "U+2D09", "U+2D0A", "U+2D0B", "U+2D0C", "U+2D0D", "U+2D0E",
      "U+2D0F", "U+2D10", "U+2D11", "U+2D12", "U+2D13", "U+2D14", "U+2D15", "U+2D16", "U+2D17", "U+2D18", "U+2D19", "U+2D1A",
      "U+2D1B", "U+2D1C", "U+2D1D", "U+2D1E", "U+2D1F", "U+2D20", "U+2D21", "U+2D22", "U+2D23", "U+2D24", "U+2D25", "U+2D27",
      "U+2D2D", "U+AB70", "U+AB71", "U+AB72", "U+AB73", "U+AB74", "U+AB75", "U+AB76", "U+AB77", "U+AB78", "U+AB79", "U+AB7A",
      "U+AB7B", "U+AB7C", "U+AB7D", "U+AB7E", "U+AB7F", "ꮀ", "ꮁ", "ꮂ", "ꮃ", "ꮄ", "ꮅ", "ꮆ",
      "ꮇ", "ꮈ", "ꮉ", "ꮊ", "ꮋ", "ꮌ", "ꮍ", "ꮎ", "ꮏ", "ꮐ", "ꮑ", "ꮒ",
      "ꮓ", "ꮔ", "ꮕ", "ꮖ", "ꮗ", "ꮘ", "ꮙ", "ꮚ", "ꮛ", "ꮜ", "ꮝ", "ꮞ",
      "ꮟ", "ꮠ", "ꮡ", "ꮢ", "ꮣ", "ꮤ", "ꮥ", "ꮦ", "ꮧ", "ꮨ", "ꮩ", "ꮪ",
      "ꮫ", "ꮬ", "ꮭ", "ꮮ", "ꮯ", "ꮰ", "ꮱ", "ꮲ", "ꮳ", "ꮴ", "ꮵ", "ꮶ",
      "ꮷ", "ꮸ", "ꮹ", "ꮺ", "ꮻ", "ꮼ", "ꮽ", "ꮾ", "ꮿ", "ᏸ", "ᏹ", "ᏺ",
      "ᏻ", "ᏼ", "ᏽ", "ა", "ბ", "გ", "დ", "ე", "ვ", "ზ", "თ", "ი",
      "კ", "ლ", "მ", "ნ", "ო", "პ", "ჟ", "რ", "ს", "ტ", "უ", "ფ",
      "ქ", "ღ", "ყ", "შ", "ჩ", "ც", "ძ", "წ", "ჭ", "ხ", "ჯ", "ჰ",
      "ჱ", "ჲ", "ჳ", "ჴ", "ჵ", "ჶ", "ჷ", "ჸ", "ჹ", "ჺ", "ჽ", "ჾ",
      "ჿ", "ẁ", "ẃ", "ẅ", "ẇ", "ẉ", "ẋ", "ẍ", "ẏ", "ẑ", "ẓ", "ẕ",
      "ß", "ạ", "ả", "ấ", "ầ", "ẩ", "ẫ", "ậ", "ắ", "ằ", "ẳ", "ẵ",
      "ặ", "ẹ", "ẻ", "ẽ", "ế", "ề", "ể", "ễ", "ệ", "ỉ", "ị", "ọ",
      "ỏ", "ố", "ồ", "ổ", "ỗ", "ộ", "ớ", "ờ", "ở", "ỡ", "ợ", "ụ",
      "ủ", "ứ", "ừ", "ử", "ữ", "ự", "ỳ", "ỵ", "ỷ", "ỹ", "ỻ", "ỽ",
      "ỿ", "ᾀ", "ᾁ", "ᾂ", "ᾃ", "ᾄ", "ᾅ", "ᾆ", "ᾇ", "ᾐ", "ᾑ", "ᾒ",
      "ᾓ", "ᾔ", "ᾕ", "ᾖ", "ᾗ", "ᾠ", "ᾡ", "ᾢ", "ᾣ", "ᾤ", "ᾥ", "ᾦ",
      "ᾧ", "ᾰ", "ᾱ", "U+1F70", "U+1F71", "ᾳ", "U+1F72", "U+1F73", "U+1F74", "U+1F75", "ῃ", "ῐ",
      "ῑ", "U+1F76", "U+1F77", "ῠ", "ῡ", "U+1F7A", "U+1F7B", "ῥ", "U+1F78", "U+1F79", "U+1F7C", "U+1F7D",
      "ῳ", "ↄ", "ⓐ", "ⓑ", "ⓒ", "ⓓ", "ⓔ", "ⓕ", "ⓖ", "ⓗ", "ⓘ", "ⓙ",
      "ⓚ", "ⓛ", "ⓜ", "ⓝ", "ⓞ", "ⓟ", "ⓠ", "ⓡ", "ⓢ", "ⓣ", "ⓤ", "ⓥ",
      "ⓦ", "ⓧ", "ⓨ", "ⓩ", "ⲁ", "ⲃ", "ⲅ", "ⲇ", "ⲉ", "ⲋ", "ⲍ", "ⲏ",
      "ⲑ", "ⲓ", "ⲕ", "ⲗ", "ⲙ", "ⲛ", "ⲝ", "ⲟ", "ⲡ", "ⲣ", "ⲥ", "ⲧ",
      "ⲩ", "ⲫ", "ⲭ", "ⲯ", "ⲱ", "ⲳ", "ⲵ", "ⲷ", "ⲹ", "ⲻ", "ⲽ", "ⲿ",
      "ⳁ", "ⳃ", "ⳅ", "ⳇ", "ⳉ", "ⳋ", "ⳍ", "ⳏ", "ⳑ", "ⳓ", "ⳕ", "ⳗ",
      "ⳙ", "ⳛ", "ⳝ", "ⳟ", "ⳡ", "ⳣ", "ⳬ", "ⳮ", "ⳳ", "ꚁ", "ꚃ", "ꚅ",
      "ꚇ", "ꚉ", "ꚋ", "ꚍ", "ꚏ", "ꚑ", "ꚓ", "ꚕ", "ꚗ", "ꚙ", "ꚛ", "ꞁ",
      "ꞃ", "ꞅ", "ꞇ", "ꞌ", "U+0265", "ꞑ", "ꞓ", "ꞗ", "ꞙ", "ꞛ", "ꞝ", "ꞟ",
      "ꞡ", "ꞣ", "ꞥ", "ꞧ", "ꞩ", "U+0266", "U+025C", "U+0261", "U+026C", "U+026A", "ʞ", "ʇ",
      "ʝ", "U+AB53", "ꞵ", "ꞷ", "ꞹ", "ꞻ", "ꞽ", "ꞿ", "ꟁ", "ꟃ", "ꞔ", "ʂ",
      "ᶎ", "ꟈ", "ꟊ", "ꟑ", "ꟗ", "ꟙ", "ꟶ">>

\* the mapping the two tuples spell out
LowerOf ==
    [c \in {UpperLetters[i] : i \in DOMAIN UpperLetters} |->
        LowerLetters[CHOOSE i \in DOMAIN UpperLetters : UpperLetters[i] = c]]

LowerChar(c) == IF c \in DOMAIN LowerOf THEN LowerOf[c] ELSE c

\* the characters with the Unicode property Cased (lowercase, uppercase or
\* titlecase letters)
Cased ==
    {"A", "B", "C", "D", "E", "F", "G", "H", "I", "J", "K", "L",
     "M", "N", "O", "P", "Q", "R", "S", "T", "U", "V", "W", "X",
     "Y", "Z", "a", "b", "c", "d", "e", "f", "g", "h", "i", "j",
     "k", "l", "m", "n", "o", "p", "q", "r", "s", "t", "u", "v",
     "w", "x", "y", "z", "ª", "µ", "º", "À", "Á", "Â", "Ã", "Ä",
     "Å", "Æ", "Ç", "È", "É", "Ê", "Ë", "Ì", "Í", "Î", "Ï", "Ð",
     "Ñ", "Ò", "Ó", "Ô", "Õ", "Ö", "Ø", "Ù", "Ú", "Û", "Ü", "Ý",
     "Þ", "ß", "à", "á", "â", "ã", "ä", "å", "æ", "ç", "è", "é",
     "ê", "ë", "ì", "í", "î", "ï", "ð", "ñ", "ò", "ó", "ô", "õ",
     "ö", "ø", "ù", "ú", "û", "ü", "ý", "þ", "ÿ", "ƀ", "Ɓ", "Ƃ",
     "ƃ", "Ƅ", "ƅ", "Ɔ", "Ƈ", "ƈ", "Ɖ", "Ɗ", "Ƌ", "ƌ", "ƍ", "Ǝ",
     "Ə", "Ɛ", "Ƒ", "ƒ", "Ɠ", "Ɣ", "ƕ", "Ɩ", "Ɨ", "Ƙ", "ƙ", "ƚ",
     "ƛ", "Ɯ", "Ɲ", "ƞ", "Ɵ", "Ơ", "ơ", "Ƣ", "ƣ", "Ƥ", "ƥ", "Ʀ",
     "Ƨ", "ƨ", "Ʃ", "ƪ", "ƫ", "Ƭ", "ƭ", "Ʈ", "Ư", "ư", "Ʊ", "Ʋ",
     "Ƴ", "ƴ", "Ƶ", "ƶ", "Ʒ", "Ƹ", "ƹ", "ƺ", "Ƽ", "ƽ", "ƾ", "ƿ",
     "Ǆ", "ǅ", "ǆ", "Ǉ", "ǈ", "ǉ", "Ǌ", "ǋ", "ǌ", "Ǎ", "ǎ", "Ǐ",
     "ǐ", "Ǒ", "ǒ", "Ǔ", "ǔ", "Ǖ", "ǖ", "Ǘ", "ǘ", "Ǚ", "ǚ", "Ǜ",
     "ǜ", "ǝ", "Ǟ", "ǟ", "Ǡ", "ǡ", "Ǣ", "ǣ", "Ǥ", "ǥ", "Ǧ", "ǧ",
     "Ǩ", "ǩ", "Ǫ", "ǫ", "Ǭ", "ǭ", "Ǯ", "ǯ", "ǰ", "Ǳ", "ǲ", "ǳ",
     "Ǵ", "ǵ", "Ƕ", "Ƿ", "Ǹ", "ǹ", "Ǻ", "ǻ", "Ǽ", "ǽ", "Ǿ", "ǿ",
     "ʀ", "ʁ", "ʂ", "ʃ", "ʄ", "ʅ", "ʆ", "ʇ", "ʈ", "ʉ", "ʊ", "ʋ",
     "ʌ", "ʍ", "ʎ", "ʏ", "ʐ", "ʑ", "ʒ", "ʓ", "ʕ", "ʖ", "ʗ", "ʘ",
     "ʙ", "ʚ", "ʛ", "ʜ", "ʝ", "ʞ", "ʟ", "ʠ", "ʡ", "ʢ", "ʣ", "ʤ",
     "ʥ", "ʦ", "ʧ", "ʨ", "ʩ", "ʪ", "ʫ", "ʬ", "ʭ", "ʮ", "ʯ", "ʰ",
     "ʱ", "ʲ", "ʳ", "ʴ", "ʵ", "ʶ", "ʷ", "ʸ", "ˀ", "ˁ", "ˠ", "ˡ",
     "ˢ", "ˣ", "ˤ", "Ά", "Έ", "Ή", "Ί", "Ό", "Ύ", "Ώ", "ΐ", "Α",
     "Β", "Γ", "Δ", "Ε", "Ζ", "Η", "Θ", "Ι", "Κ", "Λ", "Μ", "Ν",
     "Ξ", "Ο", "Π", "Ρ", "Σ", "Τ", "Υ", "Φ", "Χ", "Ψ", "Ω", "Ϊ",
     "Ϋ", "ά", "έ", "ή", "ί", "ΰ", "α", "β", "γ", "δ", "ε", "ζ",
     "η", "θ", "ι", "κ", "λ", "μ", "ν", "ξ", "ο", "π", "ρ", "ς",
     "σ", "τ", "υ", "φ", "χ", "ψ", "ω", "ϊ", "ϋ", "ό", "ύ", "ώ",
     "Ϗ", "ϐ", "ϑ", "ϒ", "ϓ", "ϔ", "ϕ", "ϖ", "ϗ", "Ϙ", "ϙ", "Ϛ",
     "ϛ", "Ϝ", "ϝ", "Ϟ", "ϟ", "Ϡ", "ϡ", "Ϣ", "ϣ", "Ϥ", "ϥ", "Ϧ",
     "ϧ", "Ϩ", "ϩ", "Ϫ", "ϫ", "Ϭ", "ϭ", "Ϯ", "ϯ", "ϰ", "ϱ", "ϲ",
     "ϳ", "ϴ", "ϵ", "Ϸ", "ϸ", "Ϲ", "Ϻ", "ϻ", "ϼ", "Ͻ", "Ͼ", "Ͽ",
     "Ҁ", "ҁ", "Ҋ", "ҋ", "Ҍ", "ҍ", "Ҏ", "ҏ", "Ґ", "ґ", "Ғ", "ғ",
     "Ҕ", "ҕ", "Җ", "җ", "Ҙ", "ҙ", "Қ", "қ", "Ҝ", "ҝ", "Ҟ", "ҟ",
     "Ҡ", "ҡ", "Ң", "ң", "Ҥ", "ҥ", "Ҧ", "ҧ", "Ҩ", "ҩ", "Ҫ", "ҫ",
     "Ҭ", "ҭ", "Ү", "ү", "Ұ", "ұ", "Ҳ", "ҳ", "Ҵ", "ҵ", "Ҷ", "ҷ",
     "Ҹ", "ҹ", "Һ", "һ", "Ҽ", "ҽ", "Ҿ", "ҿ", "Ӏ", "Ӂ", "ӂ", "Ӄ",
     "ӄ", "Ӆ", "ӆ", "Ӈ", "ӈ", "Ӊ", "ӊ", "Ӌ", "ӌ", "Ӎ", "ӎ", "ӏ",
     "Ӑ", "ӑ", "Ӓ", "ӓ", "Ӕ", "ӕ", "Ӗ", "ӗ", "Ә", "ә", "Ӛ", "ӛ",
     "Ӝ", "ӝ", "Ӟ", "ӟ", "Ӡ", "ӡ", "Ӣ", "ӣ", "Ӥ", "ӥ", "Ӧ", "ӧ",
     "Ө", "ө", "Ӫ", "ӫ", "Ӭ", "ӭ", "Ӯ", "ӯ", "Ӱ", "ӱ", "Ӳ", "ӳ",
     "Ӵ", "ӵ", "Ӷ", "ӷ", "Ӹ", "ӹ", "Ӻ", "ӻ", "Ӽ", "ӽ", "Ӿ", "ӿ",
     "ր", "ց", "ւ", "փ", "ք", "օ", "ֆ", "և", "ֈ", "Ⴀ", "Ⴁ", "Ⴂ",
     "Ⴃ", "Ⴄ", "Ⴅ", "Ⴆ", "Ⴇ", "Ⴈ", "Ⴉ", "Ⴊ", "Ⴋ", "Ⴌ", "Ⴍ", "Ⴎ",
     "Ⴏ", "Ⴐ", "Ⴑ", "Ⴒ", "Ⴓ", "Ⴔ", "Ⴕ", "Ⴖ", "Ⴗ", "Ⴘ", "Ⴙ", "Ⴚ",
     "Ⴛ", "Ⴜ", "Ⴝ", "Ⴞ", "Ⴟ", "Ⴠ", "Ⴡ", "Ⴢ", "Ⴣ", "Ⴤ", "Ⴥ", "Ⴧ",
     "Ⴭ", "ა", "ბ", "გ", "დ", "ე", "ვ", "ზ", "თ", "ი", "კ", "ლ",
     "მ", "ნ", "ო", "პ", "ჟ", "რ", "ს", "ტ", "უ", "ფ", "ქ", "ღ",
     "ყ", "შ", "ჩ", "ც", "ძ", "წ", "ჭ", "ხ", "ჯ", "ჰ", "ჱ", "ჲ",
     "ჳ", "ჴ", "ჵ", "ჶ", "ჷ", "ჸ", "ჹ", "ჺ", "ჽ", "ჾ", "ჿ", "Ꭰ",
     "Ꭱ", "Ꭲ", "Ꭳ", "Ꭴ", "Ꭵ", "Ꭶ", "Ꭷ", "Ꭸ", "Ꭹ", "Ꭺ", "Ꭻ", "Ꭼ",
     "Ꭽ", "Ꭾ", "Ꭿ", "Ꮀ", "Ꮁ", "Ꮂ", "Ꮃ", "Ꮄ", "Ꮅ", "Ꮆ", "Ꮇ", "Ꮈ",
     "Ꮉ", "Ꮊ", "Ꮋ", "Ꮌ", "Ꮍ", "Ꮎ", "Ꮏ", "Ꮐ", "Ꮑ", "Ꮒ", "Ꮓ", "Ꮔ",
     "Ꮕ", "Ꮖ", "Ꮗ", "Ꮘ", "Ꮙ", "Ꮚ", "Ꮛ", "Ꮜ", "Ꮝ", "Ꮞ", "Ꮟ", "Ꮠ",
     "Ꮡ", "Ꮢ", "Ꮣ", "Ꮤ", "Ꮥ", "Ꮦ", "Ꮧ", "Ꮨ", "Ꮩ", "Ꮪ", "Ꮫ", "Ꮬ",
     "Ꮭ", "Ꮮ", "Ꮯ", "Ꮰ", "Ꮱ", "Ꮲ", "Ꮳ", "Ꮴ", "Ꮵ", "Ꮶ", "Ꮷ", "Ꮸ",
     "Ꮹ", "Ꮺ", "Ꮻ", "Ꮼ", "Ꮽ", "Ꮾ", "Ꮿ", "Ᏸ", "Ᏹ", "Ᏺ", "Ᏻ", "Ᏼ",
     "Ᏽ", "ᏸ", "ᏹ", "ᏺ", "ᏻ", "ᏼ", "ᏽ", "ᲀ", "ᲁ", "ᲂ", "ᲃ", "ᲄ",
     "ᲅ", "ᲆ", "ᲇ", "ᲈ", "Ა", "Ბ", "Გ", "Დ", "Ე", "Ვ", "Ზ", "Თ",
     "Ი", "Კ", "Ლ", "Მ", "Ნ", "Ო", "Პ", "Ჟ", "Რ", "Ს", "Ტ", "Უ",
     "Ფ", "Ქ", "Ღ", "Ყ", "Შ", "Ჩ", "Ც", "Ძ", "Წ", "Ჭ", "Ხ", "Ჯ",
     "Ჰ", "Ჱ", "Ჲ", "Ჳ", "Ჴ", "Ჵ", "Ჶ", "Ჷ", "Ჸ", "Ჹ", "Ჺ", "Ჽ",
     "Ჾ", "Ჿ", "ᶀ", "ᶁ", "ᶂ", "ᶃ", "ᶄ", "ᶅ", "ᶆ", "ᶇ", "ᶈ", "ᶉ",
     "ᶊ", "ᶋ", "ᶌ", "ᶍ", "ᶎ", "ᶏ", "ᶐ", "ᶑ", "ᶒ", "ᶓ", "ᶔ", "ᶕ",
     "ᶖ", "ᶗ", "ᶘ", "ᶙ", "ᶚ", "ᶛ", "ᶜ", "ᶝ", "ᶞ", "ᶟ", "ᶠ", "ᶡ",
     "ᶢ", "ᶣ", "ᶤ", "ᶥ", "ᶦ", "ᶧ", "ᶨ", "ᶩ", "ᶪ", "ᶫ", "ᶬ", "ᶭ",
     "ᶮ", "ᶯ", "ᶰ", "ᶱ", "ᶲ", "ᶳ", "ᶴ", "ᶵ", "ᶶ", "ᶷ", "ᶸ", "ᶹ",
     "ᶺ", "ᶻ", "ᶼ", "ᶽ", "ᶾ", "ᶿ", "Ẁ", "ẁ", "Ẃ", "ẃ", "Ẅ", "ẅ",
     "Ẇ", "ẇ", "Ẉ", "ẉ", "Ẋ", "ẋ", "Ẍ", "ẍ", "Ẏ", "ẏ", "Ẑ", "ẑ",
     "Ẓ", "ẓ", "Ẕ", "ẕ", "ẖ", "ẗ", "ẘ", "ẙ", "ẚ", "ẛ", "ẜ", "ẝ",
     "ẞ", "ẟ", "Ạ", "ạ", "Ả", "ả", "Ấ", "ấ", "Ầ", "ầ", "Ẩ", "ẩ",
     "Ẫ", "ẫ", "Ậ", "ậ", "Ắ", "ắ", "Ằ", "ằ", "Ẳ", "ẳ", "Ẵ", "ẵ",
     "Ặ", "ặ", "Ẹ", "ẹ", "Ẻ", "ẻ", "Ẽ", "ẽ", "Ế", "ế", "Ề", "ề",
     "Ể", "ể", "Ễ", "ễ", "Ệ", "ệ", "Ỉ", "ỉ", "Ị", "ị", "Ọ", "ọ",
     "Ỏ", "ỏ", "Ố", "ố", "Ồ", "ồ", "Ổ", "ổ", "Ỗ", "ỗ", "Ộ", "ộ",
     "Ớ", "ớ", "Ờ", "ờ", "Ở", "ở", "Ỡ", "ỡ", "Ợ", "ợ", "Ụ", "ụ",
     "Ủ", "ủ", "Ứ", "ứ", "Ừ", "ừ", "Ử", "ử", "Ữ", "ữ", "Ự", "ự",
     "Ỳ", "ỳ", "Ỵ", "ỵ", "Ỷ", "ỷ", "Ỹ", "ỹ", "Ỻ", "ỻ", "Ỽ", "ỽ",
     "Ỿ", "ỿ", "ᾀ", "ᾁ", "ᾂ", "ᾃ", "ᾄ", "ᾅ", "ᾆ", "ᾇ", "ᾈ", "ᾉ",
     "ᾊ", "ᾋ", "ᾌ", "ᾍ", "ᾎ", "ᾏ", "ᾐ", "ᾑ", "ᾒ", "ᾓ", "ᾔ", "ᾕ",
     "ᾖ", "ᾗ", "ᾘ", "ᾙ", "ᾚ", "ᾛ", "ᾜ", "ᾝ", "ᾞ", "ᾟ", "ᾠ", "ᾡ",
     "ᾢ", "ᾣ", "ᾤ", "ᾥ", "ᾦ", "ᾧ", "ᾨ", "ᾩ", "ᾪ", "ᾫ", "ᾬ", "ᾭ",
     "ᾮ", "ᾯ", "ᾰ", "ᾱ", "ᾲ", "ᾳ", "ᾴ", "ᾶ", "ᾷ", "Ᾰ", "Ᾱ", "Ὰ",
     "Ά", "ᾼ", "ι", "ῂ", "ῃ", "ῄ", "ῆ", "ῇ", "Ὲ", "Έ", "Ὴ", "Ή",
     "ῌ", "ῐ", "ῑ", "ῒ", "ΐ", "ῖ", "ῗ", "Ῐ", "Ῑ", "Ὶ", "Ί", "ῠ",
     "ῡ", "ῢ", "ΰ", "ῤ", "ῥ", "ῦ", "ῧ", "Ῠ", "Ῡ", "Ὺ", "Ύ", "Ῥ",
     "ῲ", "ῳ", "ῴ", "ῶ", "ῷ", "Ὸ", "Ό", "Ὼ", "Ώ", "ῼ", "ₐ", "ₑ",
     "ₒ", "ₓ", "ₔ", "ₕ", "ₖ", "ₗ", "ₘ", "ₙ", "ₚ", "ₛ", "ₜ", "Ↄ",
     "ↄ", "Ⓐ", "Ⓑ", "Ⓒ", "Ⓓ", "Ⓔ", "Ⓕ", "Ⓖ", "Ⓗ", "Ⓘ", "Ⓙ", "Ⓚ",
     "Ⓛ", "Ⓜ", "Ⓝ", "Ⓞ", "Ⓟ", "Ⓠ", "Ⓡ", "Ⓢ", "Ⓣ", "Ⓤ", "Ⓥ", "Ⓦ",
     "Ⓧ", "Ⓨ", "Ⓩ", "ⓐ", "ⓑ", "ⓒ", "ⓓ", "ⓔ", "ⓕ", "ⓖ", "ⓗ", "ⓘ",
     "ⓙ", "ⓚ", "ⓛ", "ⓜ", "ⓝ", "ⓞ", "ⓟ", "ⓠ", "ⓡ", "ⓢ", "ⓣ", "ⓤ",
     "ⓥ", "ⓦ", "ⓧ", "ⓨ", "ⓩ", "Ⲁ", "ⲁ", "Ⲃ", "ⲃ", "Ⲅ", "ⲅ", "Ⲇ",
     "ⲇ", "Ⲉ", "ⲉ", "Ⲋ", "ⲋ", "Ⲍ", "ⲍ", "Ⲏ", "ⲏ", "Ⲑ", "ⲑ", "Ⲓ",
     "ⲓ", "Ⲕ", "ⲕ", "Ⲗ", "ⲗ", "Ⲙ", "ⲙ", "Ⲛ", "ⲛ", "Ⲝ", "ⲝ", "Ⲟ",
     "ⲟ", "Ⲡ", "ⲡ", "Ⲣ", "ⲣ", "Ⲥ", "ⲥ", "Ⲧ", "ⲧ", "Ⲩ", "ⲩ", "Ⲫ",
     "ⲫ", "Ⲭ", "ⲭ", "Ⲯ", "ⲯ", "Ⲱ", "ⲱ", "Ⲳ", "ⲳ", "Ⲵ", "ⲵ", "Ⲷ",
     "ⲷ", "Ⲹ", "ⲹ", "Ⲻ", "ⲻ", "Ⲽ", "ⲽ", "Ⲿ", "ⲿ", "Ⳁ", "ⳁ", "Ⳃ",
     "ⳃ", "Ⳅ", "ⳅ", "Ⳇ", "ⳇ", "Ⳉ", "ⳉ", "Ⳋ", "ⳋ", "Ⳍ", "ⳍ", "Ⳏ",
     "ⳏ", "Ⳑ", "ⳑ", "Ⳓ", "ⳓ", "Ⳕ", "ⳕ", "Ⳗ", "ⳗ", "Ⳙ", "ⳙ", "Ⳛ",
     "ⳛ", "Ⳝ", "ⳝ", "Ⳟ", "ⳟ", "Ⳡ", "ⳡ", "Ⳣ", "ⳣ", "ⳤ", "Ⳬ", "ⳬ",
     "Ⳮ", "ⳮ", "Ⳳ", "ⳳ", "Ꚁ", "ꚁ", "Ꚃ", "ꚃ", "Ꚅ", "ꚅ", "Ꚇ", "ꚇ",
     "Ꚉ", "ꚉ", "Ꚋ", "ꚋ", "Ꚍ", "ꚍ", "Ꚏ", "ꚏ", "Ꚑ", "ꚑ", "Ꚓ", "ꚓ",
     "Ꚕ", "ꚕ", "Ꚗ", "ꚗ", "Ꚙ", "ꚙ", "Ꚛ", "ꚛ", "ꚜ", "ꚝ", "Ꞁ", "ꞁ",
     "Ꞃ", "ꞃ", "Ꞅ", "ꞅ", "Ꞇ", "ꞇ", "Ꞌ", "ꞌ", "Ɥ", "ꞎ", "Ꞑ", "ꞑ",
     "Ꞓ", "ꞓ", "ꞔ", "ꞕ", "Ꞗ", "ꞗ", "Ꞙ", "ꞙ", "Ꞛ", "ꞛ", "Ꞝ", "ꞝ",
     "Ꞟ", "ꞟ", "Ꞡ", "ꞡ", "Ꞣ", "ꞣ", "Ꞥ", "ꞥ", "Ꞧ", "ꞧ", "Ꞩ", "ꞩ",
     "Ɦ", "Ɜ", "Ɡ", "Ɬ", "Ɪ", "ꞯ", "Ʞ", "Ʇ", "Ʝ", "Ꭓ", "Ꞵ", "ꞵ",
     "Ꞷ", "ꞷ", "Ꞹ", "ꞹ", "Ꞻ", "ꞻ", "Ꞽ", "ꞽ", "Ꞿ", "ꞿ", "Ꟁ", "ꟁ",
     "Ꟃ", "ꟃ", "Ꞔ", "Ʂ", "Ᶎ", "Ꟈ", "ꟈ", "Ꟊ", "ꟊ", "Ꟑ", "ꟑ", "ꟓ",
     "ꟕ", "Ꟗ", "ꟗ", "Ꟙ", "ꟙ", "Ꟶ", "ꟶ", "ꟸ", "ꟹ", "ꟺ", "ꮀ", "ꮁ",
     "ꮂ", "ꮃ", "ꮄ", "ꮅ", "ꮆ", "ꮇ", "ꮈ", "ꮉ", "ꮊ", "ꮋ", "ꮌ", "ꮍ",
     "ꮎ", "ꮏ", "ꮐ", "ꮑ", "ꮒ", "ꮓ", "ꮔ", "ꮕ", "ꮖ", "ꮗ", "ꮘ", "ꮙ",
     "ꮚ", "ꮛ", "ꮜ", "ꮝ", "ꮞ", "ꮟ", "ꮠ", "ꮡ", "ꮢ", "ꮣ", "ꮤ", "ꮥ",
     "ꮦ", "ꮧ", "ꮨ", "ꮩ", "ꮪ", "ꮫ", "ꮬ", "ꮭ", "ꮮ", "ꮯ", "ꮰ", "ꮱ",
     "ꮲ", "ꮳ", "ꮴ", "ꮵ", "ꮶ", "ꮷ", "ꮸ", "ꮹ", "ꮺ", "ꮻ", "ꮼ", "ꮽ",
     "ꮾ", "ꮿ"}

\* the characters with the Unicode property Case_Ignorable
CaseIgnorable ==
    {"'", ".", ":", "^", "¨", "­", "¯", "´", "·", "¸", "ʰ", "ʱ",
     "ʲ", "ʳ", "ʴ", "ʵ", "ʶ", "ʷ", "ʸ", "ʹ", "ʺ", "ʻ", "ʼ", "ʽ",
     "ʾ", "ʿ", "ˀ", "ˁ", "˂", "˃", "˄", "˅", "ˆ", "ˇ", "ˈ", "ˉ",
     "ˊ", "ˋ", "ˌ", "ˍ", "ˎ", "ˏ", "ː", "ˑ", "˒", "˓", "˔", "˕",
     "˖", "˗", "˘", "˙", "˚", "˛", "˜", "˝", "˞", "˟", "ˠ", "ˡ",
     "ˢ", "ˣ", "ˤ", "˥", "˦", "˧", "˨", "˩", "˪", "˫", "ˬ", "˭",
     "ˮ", "˯", "˰", "˱", "˲", "˳", "˴", "˵", "˶", "˷", "˸", "˹",
     "˺", "˻", "˼", "˽", "˾", "˿", "΄", "΅", "·", "҃", "҄", "҅",
     "҆", "҇", "҈", "҉", "֑", "֒", "֓", "֔", "֕", "֖", "֗", "֘",
     "֙", "֚", "֛", "֜", "֝", "֞", "֟", "֠", "֡", "֢", "֣", "֤",
     "֥", "֦", "֧", "֨", "֩", "֪", "֫", "֬", "֭", "֮", "֯", "ְ",
     "ֱ", "ֲ", "ֳ", "ִ", "ֵ", "ֶ", "ַ", "ָ", "ֹ", "ֺ", "ֻ", "ּ",
     "ֽ", "ֿ", "ׁ", "ׂ", "ׄ", "ׅ", "ׇ", "״", "ۖ", "ۗ", "ۘ", "ۙ",
     "ۚ", "ۛ", "ۜ", "۝", "۟", "۠", "ۡ", "ۢ", "ۣ", "ۤ", "ۥ", "ۦ",
     "ۧ", "ۨ", "۪", "۫", "۬", "ۭ", "ަ", "ާ", "ި", "ީ", "ު", "ޫ",
     "ެ", "ޭ", "ޮ", "ޯ", "ް", "߫", "߬", "߭", "߮", "߯", "߰", "߱",
     "߲", "߳", "ߴ", "ߵ", "ߺ", "߽", "࢈", "࢐", "࢑", "࢘", "࢙", "࢚",
     "࢛", "࢜", "࢝", "࢞", "࢟", "ࣉ", "࣊", "࣋", "࣌", "࣍", "࣎", "࣏",
     "࣐", "࣑", "࣒", "࣓", "ࣔ", "ࣕ", "ࣖ", "ࣗ", "ࣘ", "ࣙ", "ࣚ", "ࣛ",
     "ࣜ", "ࣝ", "ࣞ", "ࣟ", "࣠", "࣡", "࣢", "ࣣ", "ࣤ", "ࣥ", "ࣦ", "ࣧ",
     "ࣨ", "ࣩ", "࣪", "࣫", "࣬", "࣭", "࣮", "࣯", "ࣰ", "ࣱ", "ࣲ", "ࣳ",
     "ࣴ", "ࣵ", "ࣶ", "ࣷ", "ࣸ", "ࣹ", "ࣺ", "ࣻ", "ࣼ", "ࣽ", "ࣾ", "ࣿ",
     "ঁ", "়", "ু", "ূ", "ৃ", "ৄ", "্", "ৢ", "ৣ", "৾", "ઁ", "ં",
     "઼", "ુ", "ૂ", "ૃ", "ૄ", "ૅ", "ે", "ૈ", "્", "ૢ", "ૣ", "ૺ",
     "ૻ", "ૼ", "૽", "૾", "૿", "ஂ", "ீ", "்", "ಁ", "಼", "ಿ", "ೆ",
     "ೌ", "್", "ೢ", "ೣ", "ඁ", "්", "ි", "ී", "ු", "ූ", "ັ", "ິ",
     "ີ", "ຶ", "ື", "ຸ", "ູ", "຺", "ົ", "ຼ", "ໆ", "່", "້", "໊",
     "໋", "໌", "ໍ", "ྀ", "ཱྀ", "ྂ", "ྃ", "྄", "྆", "྇", "ྍ", "ྎ",
     "ྏ", "ྐ", "ྑ", "ྒ", "ྒྷ", "ྔ", "ྕ", "ྖ", "ྗ", "ྙ", "ྚ", "ྛ",
     "ྜ", "ྜྷ", "ྞ", "ྟ", "ྠ", "ྡ", "ྡྷ", "ྣ", "ྤ", "ྥ", "ྦ", "ྦྷ",
     "ྨ", "ྩ", "ྪ", "ྫ", "ྫྷ", "ྭ", "ྮ", "ྯ", "ྰ", "ྱ", "ྲ", "ླ",
     "ྴ", "ྵ", "ྶ", "ྷ", "ྸ", "ྐྵ", "ྺ", "ྻ", "ྼ", "࿆", "ႂ", "ႅ",
     "ႆ", "ႍ", "ႝ", "ჼ", "឴", "឵", "ិ", "ី", "ឹ", "ឺ", "ុ", "ូ",
     "ួ", "ំ", "៉", "៊", "់", "៌", "៍", "៎", "៏", "័", "៑", "្",
     "៓", "ៗ", "៝", "ᢅ", "ᢆ", "ᢩ", "ᪧ", "᪰", "᪱", "᪲", "᪳", "᪴",
     "᪵", "᪶", "᪷", "᪸", "᪹", "᪺", "᪻", "᪼", "᪽", "᪾", "ᪿ", "ᫀ",
     "᫁", "᫂", "᫃", "᫄", "᫅", "᫆", "᫇", "᫈", "᫉", "᫊", "᫋", "ᫌ",
     "ᫍ", "ᫎ", "ᮀ", "ᮁ", "ᮢ", "ᮣ", "ᮤ", "ᮥ", "ᮨ", "ᮩ", "᮫", "ᮬ",
     "ᮭ", "᯦", "ᯨ", "ᯩ", "ᯭ", "ᯯ", "ᯰ", "ᯱ", "᳐", "᳑", "᳒", "᳔",
     "᳕", "᳖", "᳗", "᳘", "᳙", "᳚", "᳛", "᳜", "᳝", "᳞", "᳟", "᳠",
     "᳢", "᳣", "᳤", "᳥", "᳦", "᳧", "᳨", "᳭", "᳴", "᳸", "᳹", "ᶛ",
     "ᶜ", "ᶝ", "ᶞ", "ᶟ", "ᶠ", "ᶡ", "ᶢ", "ᶣ", "ᶤ", "ᶥ", "ᶦ", "ᶧ",
     "ᶨ", "ᶩ", "ᶪ", "ᶫ", "ᶬ", "ᶭ", "ᶮ", "ᶯ", "ᶰ", "ᶱ", "ᶲ", "ᶳ",
     "ᶴ", "ᶵ", "ᶶ", "ᶷ", "ᶸ", "ᶹ", "ᶺ", "ᶻ", "ᶼ", "ᶽ", "ᶾ", "ᶿ",
     "᷀", "᷁", "᷂", "᷃", "᷄", "᷅", "᷆", "᷇", "᷈", "᷉", "᷊", "᷋",
     "᷌", "᷍", "᷎", "᷏", "᷐", "᷑", "᷒", "ᷓ", "ᷔ", "ᷕ", "ᷖ", "ᷗ",
     "ᷘ", "ᷙ", "ᷚ", "ᷛ", "ᷜ", "ᷝ", "ᷞ", "ᷟ", "ᷠ", "ᷡ", "ᷢ", "ᷣ",
     "ᷤ", "ᷥ", "ᷦ", "ᷧ", "ᷨ", "ᷩ", "ᷪ", "ᷫ", "ᷬ", "ᷭ", "ᷮ", "ᷯ",
     "ᷰ", "ᷱ", "ᷲ", "ᷳ", "ᷴ", "᷵", "᷶", "᷷", "᷸", "᷹", "᷺", "᷻",
     "᷼", "᷽", "᷾", "᷿", "᾽", "᾿", "῀", "῁", "῍", "῎", "῏", "῝",
     "῞", "῟", "῭", "΅", "`", "´", "῾", "ₐ", "ₑ", "ₒ", "ₓ", "ₔ",
     "ₕ", "ₖ", "ₗ", "ₘ", "ₙ", "ₚ", "ₛ", "ₜ", "⃐", "⃑", "⃒", "⃓",
     "⃔", "⃕", "⃖", "⃗", "⃘", "⃙", "⃚", "⃛", "⃜", "⃝", "⃞", "⃟",
     "⃠", "⃡", "⃢", "⃣", "⃤", "⃥", "⃦", "⃧", "⃨", "⃩", "⃪", "⃫",
     "⃬", "⃭", "⃮", "⃯", "⃰", "⳯", "⳰", "⳱", "ⷠ", "ⷡ", "ⷢ", "ⷣ",
     "ⷤ", "ⷥ", "ⷦ", "ⷧ", "ⷨ", "ⷩ", "ⷪ", "ⷫ", "ⷬ", "ⷭ", "ⷮ", "ⷯ",
     "ⷰ", "ⷱ", "ⷲ", "ⷳ", "ⷴ", "ⷵ", "ⷶ", "ⷷ", "ⷸ", "ⷹ", "ⷺ", "ⷻ",
     "ⷼ", "ⷽ", "ⷾ", "ⷿ", "゙", "゚", "゛", "゜", "ゝ", "ゞ", "ー", "ヽ",
     "ヾ", "ꓸ", "ꓹ", "ꓺ", "ꓻ", "ꓼ", "ꓽ", "ꚜ", "ꚝ", "ꚞ", "ꚟ", "꛰",
     "꛱", "ꞈ", "꞉", "꞊", "ꟲ", "ꟳ", "ꟴ", "ꟸ", "ꟹ", "꣄", "ꣅ", "꣠",
     "꣡", "꣢", "꣣", "꣤", "꣥", "꣦", "꣧", "꣨", "꣩", "꣪", "꣫", "꣬",
     "꣭", "꣮", "꣯", "꣰", "꣱", "ꣿ", "ꦀ", "ꦁ", "ꦂ", "꦳", "ꦶ", "ꦷ",
     "ꦸ", "ꦹ", "ꦼ", "ꦽ", "ꧏ", "ꧥ", "ꧦ", "ꪰ", "ꪲ", "ꪳ", "ꪴ", "ꪷ",
     "ꪸ", "ꪾ", "꪿", "꫁", "ꫝ", "ꫬ", "ꫭ", "ꫳ", "ꫴ", "꫶", "ꯥ", "ꯨ",
     "꯭", "﮲", "﮳", "﮴", "﮵", "﮶", "﮷", "﮸", "﮹", "﮺", "﮻", "﮼",
     "﮽", "﮾", "﮿", "﯀", "﯁", "﯂", "﻿", "ﾞ", "ﾟ", "￣", "￹", "￺",
     "￻"}

\* the nearest position before j, j included, that holds no case-ignorable
\* character; 0 when there is none
RECURSIVE SkipBack(_, _)
SkipBack(s, j) ==
    IF j >= 1 /\ s[j] \in CaseIgnorable THEN SkipBack(s, j - 1) ELSE j

\* the nearest such position after j, j included; Len(s) + 1 when there is none
RECURSIVE SkipForward(_, _)
SkipForward(s, j) ==
    IF j <= Len(s) /\ s[j] \in CaseIgnorable THEN SkipForward(s, j + 1) ELSE j

\* str.lower() of the capital sigma at s[i]: the final form after a cased
\* character and before none, case-ignorable characters skipped on both sides
handle_capital_sigma(s, i) ==
    LET b == SkipBack(s, i - 1)
        f == SkipForward(s, i + 1)
        final_sigma == /\ b >= 1
                       /\ s[b] \in Cased
                       /\ (f > Len(s) \/ s[f] \notin Cased)
    IN  IF final_sigma THEN "ς" ELSE "σ"

\* s.lower()
Lower(s) ==
    [i \in DOMAIN s |-> IF s[i] = "Σ" THEN handle_capital_sigma(s, i)
                                      ELSE LowerChar(s[i])]

RECURSIVE LStrip(_)
LStrip(s) ==
    IF s # <<>> /\ Head(s) \in Whitespace THEN LStrip(Tail(s)) ELSE s

RECURSIVE RStrip(_)
RStrip(s) ==
    IF s # <<>> /\ s[Len(s)] \in Whitespace
    THEN RStrip(SubSeq(s, 1, Len(s) - 1))
    ELSE s

\* s.strip()
Strip(s) == RStrip(LStrip(s))

\* s.split(sep) for a one-character separator: always at least one segment
RECURSIVE Split(_, _)
Split(s, sep) ==
    IF \E i \in DOMAIN s : s[i] = sep
    THEN LET i == CHOOSE j \in DOMAIN s :
                      s[j] = sep /\ \A k \in 1..(j - 1) : s[k] # sep
         IN  <<SubSeq(s, 1, i - 1)>> \o Split(SubSeq(s, i + 1, Len(s)), sep)
    ELSE <<s>>

\* sep.join(parts)
RECURSIVE Join(_, _)
Join(parts, sep) ==
    IF parts = <<>> THEN <<>>
    ELSE IF Len(parts) = 1 THEN parts[1]
    ELSE parts[1] \o <<sep>> \o Join(Tail(parts), sep)

Digits == <<"0", "1", "2", "3", "4", "5", "6", "7", "8", "9">>

RECURSIVE NatStr(_)
NatStr(i) ==
    IF i < 10 THEN <<Digits[i + 1]>>
    ELSE NatStr(i \div 10) \o <<Digits[(i % 10) + 1]>>

\* str(x) for the element types a recipient list carries
StrOf(x) ==
    CASE x.t = "str"  -> x.s
      [] x.t = "int"  -> IF x.n < 0 THEN <<"-">> \o NatStr(0 - x.n) ELSE NatStr(x.n)
      [] x.t = "none" -> <<"N", "o", "n", "e">>

\* [x.strip() for x in strs if x.strip()]
RECURSIVE SelectStripped(_)
SelectStripped(strs) ==
    IF strs = <<>> THEN <<>>
    ELSE LET h == Strip(Head(strs))
         IN  (IF h # <<>> THEN <<h>> ELSE <<>>) \o SelectStripped(Tail(strs))

\* [str(x) for x in vals]
StrEach(vals) == [i \in DOMAIN vals |-> StrOf(vals[i])]

-----------------------------------------------------------------------------
(* _parse_recipients (main.py 80-87) *)

\* the list branch without its `if str(x).strip()` filter
_parse_recipients_unfiltered(value) ==
    IF value.t = "none" \/ (value.t = "str" /\ value.s = <<>>) THEN <<>>
    ELSE IF value.t = "list"
         THEN [i \in DOMAIN value.l |-> Strip(StrOf(value.l[i]))]
    ELSE IF value.t = "str" THEN SelectStripped(Split(value.s, ","))
    ELSE <<>>

\* the string branch without the strip() of each kept segment
_parse_recipients_untrimmed(value) ==
    IF value.t = "none" \/ (value.t = "str" /\ value.s = <<>>) THEN <<>>
    ELSE IF value.t = "list" THEN SelectStripped(StrEach(value.l))
    ELSE IF value.t = "str"
         THEN SelectSeq(Split(value.s, ","), LAMBDA seg : Strip(seg) # <<>>)
    ELSE <<>>

_parse_recipients(value) ==
    IF value.t = "none" \/ (value.t = "str" /\ value.s = <<>>) THEN <<>>
    ELSE IF value.t = "list" THEN SelectStripped(StrEach(value.l))
    ELSE IF value.t = "str" THEN SelectStripped(Split(value.s, ","))
    ELSE <<>>

-----------------------------------------------------------------------------
(* string literals of main.py *)

S_mimemultipart ==
    <<"m", "i", "m", "e", "m", "u", "l", "t", "i", "p", "a", "r", "t">>

S_mime_multipart ==
    <<"m", "i", "m", "e", "/", "m", "u", "l", "t", "i", "p", "a", "r",
    "t">>

S_multipart_mixed ==
    <<"m", "u", "l", "t", "i", "p", "a", "r", "t", "/", "m", "i", "x",
    "e", "d">>

S_Multipart_MIXED_padded ==
    <<"\f", "M", "u", "l", "t", "i", "p", "a", "r", "t", "/", "M", "I",
    "X", "E", "D", "\n">>

S_MIME_Multipart ==
    <<"M", "I", "M", "E", "/", "M", "u", "l", "t", "i", "p", "a", "r",
    "t">>

\* "multipart/MIXÉD", which lower() does not make a MIME name
S_multipart_MIXED_accented ==
    <<"m", "u", "l", "t", "i", "p", "a", "r", "t", "/", "M", "I", "X",
    "É", "D">>

S_application_json ==
    <<"a", "p", "p", "l", "i", "c", "a", "t", "i", "o", "n", "/", "j",
    "s", "o", "n">>

\* the content types of main.py line 150
MimeTypes == {S_mimemultipart, S_mime_multipart, S_multipart_mixed}

-----------------------------------------------------------------------------
(* _ctx_from_cloudevent (main.py 41-78) *)

\* spec_keys without the three recipient attributes
spec_keys_core ==
    {"id", "source", "type", "specversion", "subject", "time", "dataschema",
     "datacontenttype", "data"}

\* the spec_keys set of lines 43-56
spec_keys ==
    {"id", "source", "type", "specversion", "subject", "time", "dataschema",
     "emailto", "emailcc", "emailbcc", "datacontenttype", "data"}

\* ce.get(k): the attribute, None when the envelope does not carry it
CeGet(e, k) == DictGet(e.attrs, k)

\* ce["id"], ce["source"], ce["type"] raise KeyError when absent
CtxRaises(e) == ~({"id", "source", "type"} \subseteq DOMAIN e.attrs)

\* lines 58-62 read the extensions from the private mapping of the SDK object,
\* and from nothing when the object keeps no dict there
_ctx_from_cloudevent(e) ==
    LET raw_attrs == e._attributes
        attrs == IF raw_attrs.t = "dict" THEN raw_attrs.d ELSE NoEntries
    IN
    [id              |-> e.attrs["id"],
     source          |-> e.attrs["source"],
     type            |-> e.attrs["type"],
     subject         |-> CeGet(e, "subject"),
     time            |-> CeGet(e, "time"),
     dataschema      |-> CeGet(e, "dataschema"),
     emailto         |-> CeGet(e, "emailto"),
     emailcc         |-> CeGet(e, "emailcc"),
     emailbcc        |-> CeGet(e, "emailbcc"),
     datacontenttype |-> CeGet(e, "datacontenttype"),
     data            |-> e.data,
     extensions      |-> [k \in (DOMAIN attrs) \ spec_keys |-> attrs[k]]]

-----------------------------------------------------------------------------
(* _recipients_from_event (main.py 90-92) *)

_recipients_from_event(c) ==
    [to  |-> _parse_recipients(c.emailto),
     cc  |-> _parse_recipients(c.emailcc),
     bcc |-> _parse_recipients(c.emailbcc)]

-----------------------------------------------------------------------------
(* _extract_raw_mime (main.py 94-109) *)

\* bytes(data).decode("utf-8", errors="replace"): a byte that is not valid
\* UTF-8 becomes U+FFFD, written "?"; the model's other bytes are ASCII
DecodeReplace(bs) == [i \in DOMAIN bs |-> IF bs[i] = "xFF" THEN "?" ELSE bs[i]]

\* data.get("raw_mime") or data.get("mime") or data.get("message")
RawCandidate(d) ==
    PyOr(PyOr(DictGet(d, "raw_mime"), DictGet(d, "mime")), DictGet(d, "message"))

\* the result is a str value or None
_extract_raw_mime(c) ==
    LET data == c.data IN
    IF data.t = "none" THEN PyNone
    ELSE IF data.t = "bytes" THEN PyStr(DecodeReplace(data.b))
    ELSE IF data.t = "str" THEN data
    ELSE IF data.t = "dict"
         THEN LET raw == RawCandidate(data.d) IN
              IF raw.t = "str" /\ Strip(raw.s) # <<>> THEN raw ELSE PyNone
    ELSE PyNone

\* line 150 without .strip().lower()
IsMimeMode_exact(c) ==
    LET dct == PyOr(c.datacontenttype, PyStr(<<>>))
    IN  dct.s \in MimeTypes

\* line 150: (ctx.datacontenttype or "").strip().lower() in {...}
IsMimeMode(c) ==
    LET dct == PyOr(c.datacontenttype, PyStr(<<>>))
    IN  Lower(Strip(dct.s)) \in MimeTypes

-----------------------------------------------------------------------------
(* handle (main.py 111-235): the values a request can carry *)

\* marks an attribute the envelope does not carry
Absent == [t |-> "absent"]

Addr(local, domain) == <<local, "@", domain>>

\* "a@x, b@y ,"
S_two_padded == Addr("a", "x") \o <<",", " ">> \o Addr("b", "y") \o <<" ", ",">>

\* what an emailto / emailcc / emailbcc attribute can hold
RecipientAttrs ==
    {Absent,
     PyStr(S_two_padded),
     PyStr(<<" ", ",", " ">>),
     PyList(<<PyStr(<<"\f">> \o Addr("c", "z") \o <<" ">>)>>)}

ContentTypeAttrs ==
    {Absent,
     PyStr(S_multipart_mixed),
     PyStr(S_Multipart_MIXED_padded),
     PyStr(S_mimemultipart),
     PyStr(S_MIME_Multipart),
     PyStr(S_multipart_MIXED_accented),
     PyStr(S_application_json)}

S_MIME == <<"M", "I", "M", "E">>

DataPayloads ==
    {PyNone,
     PyStr(S_MIME),
     PyStr(<<>>),
     PyBytes(<<"M", "xFF">>),
     PyDict("raw_mime" :> PyStr(S_MIME)),
     PyDict(("emailto" :> PyStr(Addr("e", "d"))) @@ ("emailcc" :> PyStr(Addr("f", "d")))),
     PyDict(("templates_inline_json" :> PyStr(<<"{", "}">>))
            @@ ("message" :> PyStr(<<"M", "S", "G">>)))}

AttrNames == {"id", "source", "type", "emailto", "emailcc", "emailbcc", "datacontenttype"}

\* an envelope from_http parsed: the attributes ce[k] and ce.get(k) answer
\* from, the dict the cloudevents.http object keeps them in, and its data
MkEnvelope(id, to, cc, bcc, dct, data) ==
    LET full == [k \in AttrNames |->
                    CASE k = "id"              -> id
                      [] k = "source"          -> PyStr(<<"s", "r", "c">>)
                      [] k = "type"            -> PyStr(<<"t", "y", "p">>)
                      [] k = "emailto"         -> to
                      [] k = "emailcc"         -> cc
                      [] k = "emailbcc"        -> bcc
                      [] k = "datacontenttype" -> dct]
        present == {k \in AttrNames : full[k] # Absent}
    IN  [parse_ok    |-> TRUE,
         attrs       |-> [k \in present |-> full[k]],
         _attributes |-> PyDict([k \in present |-> full[k]]),
         data        |-> data]

GoodEnvelopes ==
    {MkEnvelope(PyStr(<<"i", "d", "1">>), to, cc, bcc, dct, data) :
        to \in RecipientAttrs, cc \in RecipientAttrs, bcc \in RecipientAttrs,
        dct \in ContentTypeAttrs, data \in DataPayloads}

\* e without the attribute called name
Without(e, name) ==
    LET rest == [k \in (DOMAIN e.attrs) \ {name} |-> e.attrs[k]]
    IN  [e EXCEPT !.attrs = rest, !._attributes = PyDict(rest)]

\* a body from_http rejects, and envelopes without their id, source or type
MalformedEnvelopes ==
    {[parse_ok |-> FALSE, attrs |-> NoEntries, _attributes |-> PyNone,
      data |-> PyNone],
     MkEnvelope(Absent, PyStr(S_two_padded), Absent, Absent,
                PyStr(S_multipart_mixed), PyStr(S_MIME))}
        \cup {Without(MkEnvelope(PyStr(<<"i", "d", "1">>), PyStr(S_two_padded),
                                  Absent, Absent, dct, PyStr(S_MIME)), name) :
                  name \in {"source", "type"},
                  dct \in {Absent, PyStr(S_multipart_mixed)}}

\* envelopes of another event: one per branch, recipients in the attributes
OtherEventEnvelopes ==
    {MkEnvelope(PyStr(<<"i", "d", "2">>), PyStr(S_two_padded), Absent, Absent,
                dct, PyStr(S_MIME)) :
        dct \in {Absent, PyStr(S_multipart_mixed)}}

Envelopes == GoodEnvelopes \cup MalformedEnvelopes \cup OtherEventEnvelopes

StaticLists(local) == {<<>>, <<Addr(local, "s")>>}

\* the configurations a process can run with
SettingsSet ==
    [email_from : {Addr("n", "a")},
     email_to   : StaticLists("t"),
     email_cc   : StaticLists("c"),
     email_bcc  : StaticLists("b"),
     dry_run    : BOOLEAN,
     templates_inline_json : {PyNone}]
        \cup
    [email_from : {Addr("n", "a")},
     email_to   : {<<Addr("t", "s")>>},
     email_cc   : {<<>>},
     email_bcc  : {<<>>},
     dry_run    : BOOLEAN,
     templates_inline_json : {PyStr(<<"{", "c", "}">>)}]

\* a Settings object with the configured values: `object` tells a new object,
\* which the caller alone holds, from the one object the process keeps
SettingsOf(cfg, which) ==
    [k \in DOMAIN cfg \cup {"object"} |-> IF k = "object" THEN which ELSE cfg[k]]

\* load_settings() answering every call with the one object the process keeps
load_settings_cached(cfg) ==
    SettingsOf(cfg, "shared")

\* load_settings(): a new Settings object holding the configured values
load_settings(cfg) ==
    SettingsOf(cfg, "new")

\* the fields of the object s refers to: those of the process when s is the
\* object the process keeps
SettingsObject(s, cfg) ==
    IF s.object = "shared"
    THEN [s EXCEPT !.templates_inline_json = cfg.templates_inline_json]
    ELSE s

\* what TemplateRenderer(settings).render(ctx) can return
RenderResults ==
    {[subject |-> PyStr(<<"S">>), text |-> PyStr(<<"T">>), html |-> PyNone],
     [subject |-> PyStr(<<"S">>), text |-> PyNone, html |-> PyStr(<<"H">>)]}

NoResponse == [body |-> "", status |-> 0]

NoCalls == [filter |-> 0, extract |-> 0, render |-> 0, create |-> 0, send |-> 0]

NoRecipients == [to |-> <<>>, cc |-> <<>>, bcc |-> <<>>]

-----------------------------------------------------------------------------
(* handle: the decisions it takes *)

\* a or b on two lists
ListOr(a, b) == IF a # <<>> THEN a ELSE b

\* the configured lists are used only when the event supplies no list at all
ResolveFields_jointly(ev, s) ==
    IF ev.to = <<>> /\ ev.cc = <<>> /\ ev.bcc = <<>>
    THEN [to |-> s.email_to, cc |-> s.email_cc, bcc |-> s.email_bcc]
    ELSE ev

\* lines 142-146: each field falls back to its own configured list
ResolveFields(ev, s) ==
    [to  |-> ListOr(ev.to, s.email_to),
     cc  |-> ListOr(ev.cc, s.email_cc),
     bcc |-> ListOr(ev.bcc, s.email_bcc)]

\* the type and source headers exchanged
TracingHeaders_swapped(c) ==
    ("X-CloudEvent-ID" :> c.id) @@ ("X-CloudEvent-Type" :> c.source)
        @@ ("X-CloudEvent-Source" :> c.type)

\* lines 163-167 and 207-211
TracingHeaders(c) ==
    ("X-CloudEvent-ID" :> c.id) @@ ("X-CloudEvent-Type" :> c.type)
        @@ ("X-CloudEvent-Source" :> c.source)

\* lines 155-169
RawMessage(c, s, r, raw) ==
    [subject  |-> PyStr(<<>>),
     text     |-> PyNone,
     html     |-> PyNone,
     sender   |-> s.email_from,
     to       |-> r.to,
     cc       |-> r.cc,
     bcc      |-> r.bcc,
     headers  |-> TracingHeaders(c),
     raw_mime |-> raw]

\* lines 199-213; raw_mime is still the None of line 149
TemplateMessage(c, s, r, rendered, raw) ==
    [subject  |-> rendered.subject,
     text     |-> rendered.text,
     html     |-> rendered.html,
     sender   |-> s.email_from,
     to       |-> r.to,
     cc       |-> r.cc,
     bcc      |-> r.bcc,
     headers  |-> TracingHeaders(c),
     raw_mime |-> raw]

\* the raw-MIME branch without the check of line 171
DispositionRaw_unchecked(m, s) ==
    IF s.dry_run THEN "DryRun" ELSE "Send"

\* lines 171-177: which way the raw-MIME branch leaves
DispositionRaw(m, s) ==
    IF ~(m.to # <<>> \/ m.cc # <<>> \/ m.bcc # <<>>) THEN "NoRecipients"
    ELSE IF s.dry_run THEN "DryRun"
    ELSE "Send"

\* lines 216-225: which way the template branch leaves
DispositionTemplate(m, s) ==
    IF m.to = <<>> THEN "NoRecipients"
    ELSE IF s.dry_run THEN "DryRun"
    ELSE "Send"

\* lines 189-190: the inline templates of the event replace the configured ones
WithInlineTemplates(c, s) ==
    IF Truthy(c.data) /\ c.data.t = "dict" /\ "templates_inline_json" \in DOMAIN c.data.d
    THEN [s EXCEPT !.templates_inline_json = c.data.d["templates_inline_json"]]
    ELSE s

\* what the process keeps after line 190: the assignment reaches it only when
\* settings is the object the process keeps
StoreInlineTemplates(c, s, cfg) ==
    IF s.object = "shared"
    THEN [cfg EXCEPT !.templates_inline_json =
                        WithInlineTemplates(c, SettingsObject(s, cfg)).templates_inline_json]
    ELSE cfg

Respond(body, status, how) ==
    /\ response' = [body |-> body, status |-> status]
    /\ disp' = how
    /\ pc' = "done"

Count(what) == [calls EXCEPT ![what] = @ + 1]

-----------------------------------------------------------------------------
(* handle: its steps *)

\* lines 113-116: a request arrives and the settings are loaded
Receive ==
    /\ pc = "idle"
    /\ settings' = load_settings(config)
    /\ \E e \in Envelopes : ce' = e
    /\ pc' = "from_http"
    /\ ctx' = PyNone
    /\ rcpt' = NoRecipients
    /\ raw_mime' = PyNone
    /\ msg' = PyNone
    /\ response' = NoResponse
    /\ disp' = "none"
    /\ calls' = NoCalls
    /\ sent' = <<>>
    /\ matches' = "unasked"
    /\ raised' = "none"
    /\ smtp' = <<>>
    /\ UNCHANGED config
    /\ UNCHANGED <<fnVars, inflight>>

\* lines 118-122 without the return of line 122
FromHttp_unguarded ==
    /\ pc = "from_http"
    /\ pc' = "ctx"
    /\ UNCHANGED <<settings, ce, ctx, rcpt, raw_mime, msg, calls, sent, response, disp>>
    /\ UNCHANGED <<matches, raised, smtp, config>>
    /\ UNCHANGED <<fnVars, inflight>>

\* lines 118-122
FromHttp ==
    /\ pc = "from_http"
    /\ IF ce.parse_ok
       THEN /\ pc' = "ctx"
            /\ UNCHANGED <<response, disp, raised>>
       ELSE /\ Respond("Invalid CloudEvent", 400, "Unparseable")
            /\ raised' = "from_http"
    /\ UNCHANGED <<settings, ce, ctx, rcpt, raw_mime, msg, calls, sent>>
    /\ UNCHANGED matches
    /\ UNCHANGED <<smtp, config>>
    /\ UNCHANGED <<fnVars, inflight>>

\* lines 124-133
BuildContext ==
    /\ pc = "ctx"
    /\ IF CtxRaises(ce)
       THEN /\ Respond("Invalid CloudEvent", 400, "MissingAttribute")
            /\ raised' = "_ctx_from_cloudevent"
            /\ ctx' = ctx
       ELSE /\ ctx' = _ctx_from_cloudevent(ce)
            /\ pc' = "filter"
            /\ UNCHANGED <<response, disp, raised>>
    /\ UNCHANGED <<settings, ce, rcpt, raw_mime, msg, calls, sent>>
    /\ UNCHANGED matches
    /\ UNCHANGED <<smtp, config>>
    /\ UNCHANGED <<fnVars, inflight>>

\* lines 135-140 without the return of line 140
Filter_falls_through ==
    /\ pc = "filter"
    /\ calls' = [calls EXCEPT !.filter = @ + 1]
    /\ \E answer \in BOOLEAN : matches' = IF answer THEN "yes" ELSE "no"
    /\ pc' = "resolve"
    /\ UNCHANGED <<settings, ce, ctx, rcpt, raw_mime, msg, sent, response, disp>>
    /\ UNCHANGED <<raised, smtp, config>>
    /\ UNCHANGED <<fnVars, inflight>>

\* lines 135-140; matches_filters answers either way
Filter ==
    /\ pc = "filter"
    /\ calls' = Count("filter")
    /\ \E answer \in BOOLEAN :
          /\ matches' = IF answer THEN "yes" ELSE "no"
          /\ IF ~answer
             THEN Respond("", 204, "FilteredOut")
             ELSE /\ pc' = "resolve"
                  /\ UNCHANGED <<response, disp>>
    /\ UNCHANGED <<settings, ce, ctx, rcpt, raw_mime, msg, sent>>
    /\ UNCHANGED <<raised, smtp, config>>
    /\ UNCHANGED <<fnVars, inflight>>

\* lines 142-146
ResolveRecipients ==
    /\ pc = "resolve"
    /\ rcpt' = ResolveFields(_recipients_from_event(ctx), settings)
    /\ pc' = "content"
    /\ UNCHANGED <<settings, ce, ctx, raw_mime, msg, response, disp, calls, sent>>
    /\ UNCHANGED matches
    /\ UNCHANGED <<raised, smtp, config>>
    /\ UNCHANGED <<fnVars, inflight>>

\* lines 149-169: the raw-MIME branch up to its message
RawMimeContent ==
    /\ pc = "content"
    /\ IsMimeMode(ctx)
    /\ calls' = Count("extract")
    /\ LET raw == _extract_raw_mime(ctx) IN
          /\ raw_mime' = raw
          /\ IF ~Truthy(raw)
             THEN /\ Respond("Missing raw MIME payload in CloudEvent data", 400,
                             "MissingPayload")
                  /\ msg' = msg
             ELSE /\ msg' = RawMessage(ctx, settings, rcpt, raw)
                  /\ pc' = "dispose_raw"
                  /\ UNCHANGED <<response, disp>>
    /\ UNCHANGED <<settings, ce, ctx, rcpt, sent>>
    /\ UNCHANGED matches
    /\ UNCHANGED <<raised, smtp, config>>
    /\ UNCHANGED <<fnVars, inflight>>

\* lines 171-177
DisposeRaw ==
    /\ pc = "dispose_raw"
    /\ LET d == DispositionRaw(msg, settings) IN
          IF d = "Send"
          THEN /\ pc' = "send_raw"
               /\ UNCHANGED <<response, disp>>
          ELSE Respond("", 202, d)
    /\ UNCHANGED <<settings, ce, ctx, rcpt, raw_mime, msg, calls, sent>>
    /\ UNCHANGED matches
    /\ UNCHANGED <<raised, smtp, config>>
    /\ UNCHANGED <<fnVars, inflight>>

\* YagmailClient.send (yagmail_client.py 26-40): the arguments of the one
\* self._smtp.send() call it makes
YagmailClient_send(message) ==
    [to       |-> message.to,
     subject  |-> message.subject,
     contents |-> IF Truthy(message.html) THEN <<message.html>>
                  ELSE IF Truthy(message.text) THEN <<message.text>>
                  ELSE <<>>,
     cc       |-> IF message.cc # <<>> THEN PyList(message.cc) ELSE PyNone,
     bcc      |-> IF message.bcc # <<>> THEN PyList(message.bcc) ELSE PyNone,
     headers  |-> IF DOMAIN message.headers # {} THEN PyDict(message.headers)
                  ELSE PyNone]

\* a send() that raised is tried a second time
Deliver_retries(m) ==
    \E created \in BOOLEAN, delivered \in BOOLEAN :
       /\ calls' = [calls EXCEPT !.create = @ + 1,
                                 !.send = IF ~created THEN @
                                          ELSE IF delivered THEN @ + 1 ELSE @ + 2]
       /\ sent' = IF ~created THEN sent
                  ELSE IF delivered THEN Append(sent, m) ELSE sent \o <<m, m>>
       /\ smtp' = IF ~created THEN smtp
                  ELSE IF delivered THEN Append(smtp, YagmailClient_send(m))
                  ELSE smtp \o <<YagmailClient_send(m), YagmailClient_send(m)>>
       /\ raised' = IF ~created THEN "create_email_client"
                    ELSE IF ~delivered THEN "send" ELSE "none"
       /\ IF created /\ delivered
          THEN Respond("", 202, "Sent")
          ELSE Respond("Email send failed", 502, "SendFailed")

\* the except clause of lines 182-184 and 230-232 only logs
Deliver_swallows(m) ==
    \E created \in BOOLEAN, delivered \in BOOLEAN :
       /\ calls' = [calls EXCEPT !.create = @ + 1,
                                 !.send = IF created THEN @ + 1 ELSE @]
       /\ sent' = IF created THEN Append(sent, m) ELSE sent
       /\ smtp' = IF created THEN Append(smtp, YagmailClient_send(m)) ELSE smtp
       /\ raised' = IF ~created THEN "create_email_client"
                    ELSE IF ~delivered THEN "send" ELSE "none"
       /\ Respond("", 202, "Sent")

\* create_email_client(settings); client.send(m): either may raise
Deliver(m) ==
    \E created \in BOOLEAN, delivered \in BOOLEAN :
       /\ calls' = [calls EXCEPT !.create = @ + 1,
                                 !.send = IF created THEN @ + 1 ELSE @]
       /\ sent' = IF created THEN Append(sent, m) ELSE sent
       /\ smtp' = IF created THEN Append(smtp, YagmailClient_send(m)) ELSE smtp
       /\ raised' = IF ~created THEN "create_email_client"
                    ELSE IF ~delivered THEN "send" ELSE "none"
       /\ IF created /\ delivered
          THEN Respond("", 202, "Sent")
          ELSE Respond("Email send failed", 502, "SendFailed")

\* lines 179-186
SendRaw ==
    /\ pc = "send_raw"
    /\ Deliver(msg)
    /\ UNCHANGED <<settings, ce, ctx, rcpt, raw_mime, msg>>
    /\ UNCHANGED matches
    /\ UNCHANGED config
    /\ UNCHANGED <<fnVars, inflight>>

\* lines 188-214 with the checks of lines 216-225 moved before the renderer
TemplateContent_checks_first ==
    /\ pc = "content"
    /\ ~IsMimeMode(ctx)
    /\ settings' = WithInlineTemplates(ctx, settings)
    /\ IF rcpt.to = <<>> \/ settings.dry_run
       THEN /\ Respond("", 202, IF rcpt.to = <<>> THEN "NoRecipients" ELSE "DryRun")
            /\ UNCHANGED <<msg, calls, raised>>
       ELSE /\ calls' = Count("render")
            /\ \/ /\ Respond("Template rendering failed", 500, "RenderFailed")
                  /\ raised' \in {"TemplateRenderer", "render"}
                  /\ msg' = msg
               \/ \E rendered \in RenderResults :
                     /\ msg' = TemplateMessage(ctx, settings', rcpt, rendered, raw_mime)
                     /\ pc' = "dispose_template"
                     /\ UNCHANGED <<response, disp, raised>>
    /\ UNCHANGED <<ce, ctx, rcpt, raw_mime, sent>>
    /\ UNCHANGED matches
    /\ UNCHANGED smtp
    /\ config' = StoreInlineTemplates(ctx, settings, config)
    /\ UNCHANGED <<fnVars, inflight>>

\* lines 188-214 with an except clause that goes on with empty content
TemplateContent_sends_unrendered ==
    /\ pc = "content"
    /\ ~IsMimeMode(ctx)
    /\ settings' = WithInlineTemplates(ctx, settings)
    /\ calls' = Count("render")
    /\ \E rendered \in RenderResults \cup
                      {[subject |-> PyStr(<<>>), text |-> PyNone, html |-> PyNone]} :
          /\ msg' = TemplateMessage(ctx, settings', rcpt, rendered, raw_mime)
          /\ raised' = IF rendered \in RenderResults THEN "none" ELSE "render"
    /\ pc' = "dispose_template"
    /\ UNCHANGED <<ce, ctx, rcpt, raw_mime, sent, response, disp>>
    /\ UNCHANGED matches
    /\ UNCHANGED smtp
    /\ config' = StoreInlineTemplates(ctx, settings, config)
    /\ UNCHANGED <<fnVars, inflight>>

\* lines 188-214: the template branch up to its message
TemplateContent ==
    /\ pc = "content"
    /\ ~IsMimeMode(ctx)
    /\ settings' = WithInlineTemplates(ctx, settings)
    /\ calls' = Count("render")
    /\ \/ /\ Respond("Template rendering failed", 500, "RenderFailed")
          /\ raised' \in {"TemplateRenderer", "render"}
          /\ msg' = msg
       \/ \E rendered \in RenderResults :
             /\ msg' = TemplateMessage(ctx, settings', rcpt, rendered, raw_mime)
             /\ pc' = "dispose_template"
             /\ UNCHANGED <<response, disp, raised>>
    /\ UNCHANGED <<ce, ctx, rcpt, raw_mime, sent>>
    /\ UNCHANGED matches
    /\ UNCHANGED smtp
    /\ config' = StoreInlineTemplates(ctx, settings, config)
    /\ UNCHANGED <<fnVars, inflight>>

\* lines 216-225
DisposeTemplate ==
    /\ pc = "dispose_template"
    /\ LET d == DispositionTemplate(msg, settings) IN
          IF d = "Send"
          THEN /\ pc' = "send_template"
               /\ UNCHANGED <<response, disp>>
          ELSE Respond("", 202, d)
    /\ UNCHANGED <<settings, ce, ctx, rcpt, raw_mime, msg, calls, sent>>
    /\ UNCHANGED matches
    /\ UNCHANGED <<raised, smtp, config>>
    /\ UNCHANGED <<fnVars, inflight>>

\* lines 227-235
SendTemplate ==
    /\ pc = "send_template"
    /\ Deliver(msg)
    /\ UNCHANGED <<settings, ce, ctx, rcpt, raw_mime, msg>>
    /\ UNCHANGED matches
    /\ UNCHANGED config
    /\ UNCHANGED <<fnVars, inflight>>

\* line 111: the response goes back to the framework, which waits for the
\* next request
Return ==
    /\ pc = "done"
    /\ pc' = "idle"
    /\ settings' = PyNone
    /\ ce' = PyNone
    /\ ctx' = PyNone
    /\ rcpt' = NoRecipients
    /\ raw_mime' = PyNone
    /\ msg' = PyNone
    /\ response' = NoResponse
    /\ disp' = "none"
    /\ calls' = NoCalls
    /\ sent' = <<>>
    /\ matches' = "unasked"
    /\ raised' = "none"
    /\ smtp' = <<>>
    /\ UNCHANGED config
    /\ UNCHANGED <<fnVars, inflight>>

ReqInit ==
    /\ pc = "idle"
    /\ settings = PyNone
    /\ ce = PyNone
    /\ ctx = PyNone
    /\ rcpt = NoRecipients
    /\ raw_mime = PyNone
    /\ msg = PyNone
    /\ response = NoResponse
    /\ disp = "none"
    /\ calls = NoCalls
    /\ sent = <<>>
    /\ matches = "unasked"
    /\ raised = "none"
    /\ smtp = <<>>

\* most handle() runs under way at once
MaxInFlight == 2

Requests == 1..MaxInFlight

\* a run that has not started
NotRunning ==
    [pc |-> "idle", settings |-> PyNone, ctx |-> PyNone, rendered |-> FALSE,
     templates |-> PyNone]

NoneInFlight == [r \in Requests |-> NotRunning]

\* no pure-function run is under way
FnOff ==
    /\ fnPc = "off"
    /\ fnArg = PyNone
    /\ fnOut = PyNone
    /\ fnOut2 = PyNone

Init ==
    /\ ReqInit
    /\ config \in SettingsSet
    /\ FnOff
    /\ inflight = NoneInFlight

Next ==
    \/ Receive
    \/ FromHttp
    \/ BuildContext
    \/ Filter
    \/ ResolveRecipients
    \/ RawMimeContent
    \/ DisposeRaw
    \/ SendRaw
    \/ TemplateContent
    \/ DisposeTemplate
    \/ SendTemplate
    \/ Return

Spec == Init /\ [][Next]_vars

-----------------------------------------------------------------------------
(* _parse_recipients applied to every value of a bounded set *)

\* longest string argument
MaxStrLen == 5

\* longest list argument
MaxListLen == 2

ParseAlphabet == {"a", ",", " ", "\f"}

SeqsUpTo(S, n) == UNION {[1..k -> S] : k \in 0..n}

\* "a@x.com, b@y.com ,"
S_example ==
    <<"a", "@", "x", ".", "c", "o", "m", ",", " ",
      "b", "@", "y", ".", "c", "o", "m", " ", ",">>

ListElements ==
    {PyStr(<<"a">>), PyStr(<<" ", "b", "\f">>), PyStr(<<>>), PyStr(<<" ">>),
     PyStr(<<"a", ",", "b">>), PyInt(7), PyNone}

ParseArgs ==
    {PyStr(s) : s \in SeqsUpTo(ParseAlphabet, MaxStrLen)}
        \cup {PyList(l) : l \in SeqsUpTo(ListElements, MaxListLen)}
        \cup {PyStr(S_example), PyNone, PyInt(0), PyInt(7), EmptyDict,
              PyBytes(<<"a">>)}

InitParse ==
    /\ ReqInit
    /\ config = PyNone
    /\ fnPc = "arg"
    /\ fnArg \in ParseArgs
    /\ fnOut = PyNone
    /\ fnOut2 = PyNone
    /\ inflight = NoneInFlight

\* _parse_recipients(v)
ParseOnce ==
    /\ fnPc = "arg"
    /\ fnOut' = _parse_recipients(fnArg)
    /\ fnPc' = "parsed"
    /\ UNCHANGED <<fnArg, fnOut2>>
    /\ UNCHANGED <<reqVars, inflight>>

\* _parse_recipients(",".join(parsed))
ParseJoined ==
    /\ fnPc = "parsed"
    /\ fnOut2' = _parse_recipients(PyStr(Join(fnOut, ",")))
    /\ fnPc' = "rejoined"
    /\ UNCHANGED <<fnArg, fnOut>>
    /\ UNCHANGED <<reqVars, inflight>>

NextParse ==
    \/ ParseOnce
    \/ ParseJoined

SpecParse == InitParse /\ [][NextParse]_vars

-----------------------------------------------------------------------------
(* _extract_raw_mime applied to every payload of a bounded set *)

\* what a key of the payload can hold
KeyValues(text) ==
    {Absent, PyNone, PyStr(<<>>), PyStr(<<" ">>), PyStr(<<"\f">>), PyStr(text),
     PyInt(7), PyInt(0)}

MkPayload(a, b, c) ==
    LET full == ("raw_mime" :> a) @@ ("mime" :> b) @@ ("message" :> c)
        present == {k \in DOMAIN full : full[k] # Absent}
    IN  PyDict([k \in present |-> full[k]])

ExtractArgs ==
    {MkPayload(a, b, c) : a \in KeyValues(<<"R">>), b \in KeyValues(<<"M">>),
                          c \in KeyValues(<<"G">>)}
        \cup {PyNone, PyStr(S_MIME), PyStr(<<>>), PyBytes(<<"M", "xFF">>),
              PyBytes(<<>>), PyInt(7)}

InitExtract ==
    /\ ReqInit
    /\ config = PyNone
    /\ fnPc = "arg"
    /\ fnArg \in ExtractArgs
    /\ fnOut = PyNone
    /\ fnOut2 = PyNone
    /\ inflight = NoneInFlight

\* _extract_raw_mime(ctx) for a context whose data is the payload
ExtractOnce ==
    /\ fnPc = "arg"
    /\ fnOut' = _extract_raw_mime([data |-> fnArg])
    /\ fnPc' = "extracted"
    /\ UNCHANGED <<fnArg, fnOut2>>
    /\ UNCHANGED <<reqVars, inflight>>

NextExtract == ExtractOnce

SpecExtract == InitExtract /\ [][NextExtract]_vars

-----------------------------------------------------------------------------
(* Properties of handle, checked under Spec *)

\* the request is past lines 142-146 of a handle() run the filter let through
Resolved ==
    /\ matches = "yes"
    /\ pc \in {"content", "dispose_raw", "send_raw", "dispose_template",
               "send_template", "done"}

\* handle() built its EmailMessage
Built == msg # PyNone

SomeRecipient(m) == m.to # <<>> \/ m.cc # <<>> \/ m.bcc # <<>>

\* C1: client.send() is never given a message whose to, cc and bcc lists are
\* all empty, in either branch.
C1_NeverSendsToNobody ==
    \A i \in DOMAIN sent : SomeRecipient(sent[i])

\* a raw-MIME message with no to, only cc, was handed to client.send()
C1_Witness ==
    /\ pc = "done"
    /\ Len(sent) = 1
    /\ sent[1].raw_mime # PyNone
    /\ sent[1].to = <<>>
    /\ sent[1].cc # <<>>

\* C2: once content is obtained, the outcome is Skipped(NoRecipients) only if
\* to, cc and bcc are all empty; otherwise Skipped(DryRun) if dry-run is
\* configured; otherwise the message goes to the delivery client. Both branches.
C2_DispositionRulesInOrder ==
    (pc = "done" /\ Built) =>
        IF ~SomeRecipient(msg) THEN disp = "NoRecipients"
        ELSE IF settings.dry_run THEN disp = "DryRun"
        ELSE calls.create = 1 /\ disp \in {"Sent", "SendFailed"}

\* C3: when matches_filters answers false, nothing is extracted, rendered,
\* built or delivered, and the response is the empty 204.
C3_RejectedEventDoesNothing ==
    matches = "no" =>
        /\ pc = "done"
        /\ response = [body |-> "", status |-> 204]
        /\ calls.extract = 0
        /\ calls.render = 0
        /\ calls.create = 0
        /\ calls.send = 0
        /\ sent = <<>>
        /\ raw_mime = PyNone
        /\ ~Built

\* the filter was asked once and rejected an event that carries raw MIME
C3_Witness ==
    /\ matches = "no"
    /\ calls.filter = 1
    /\ disp = "FilteredOut"
    /\ IsMimeMode(ctx)
    /\ Truthy(_extract_raw_mime(ctx))

\* C4: with dry-run on and some recipient list non-empty, the outcome is
\* Skipped(DryRun) with the accepted response, and no delivery client is
\* built or called. Both branches.
C4_DryRunSkips ==
    (pc = "done" /\ Built /\ settings.dry_run /\ SomeRecipient(msg)) =>
        /\ disp = "DryRun"
        /\ response = [body |-> "", status |-> 202]
        /\ calls.create = 0
        /\ calls.send = 0
        /\ sent = <<>>

\* datacontenttype, trimmed and lower-cased, names a MIME multipart type
NamesMimeType(c) ==
    /\ c.datacontenttype # PyNone
    /\ Lower(Strip(c.datacontenttype.s)) \in
          {S_mimemultipart, S_mime_multipart, S_multipart_mixed}

\* the request is past the content step of a handle() run
PastContent ==
    /\ matches = "yes"
    /\ pc \in {"dispose_raw", "send_raw", "dispose_template", "send_template", "done"}

\* C5: a MIME multipart datacontenttype (trimmed, any case) selects the
\* raw-MIME branch and the renderer is never called, a payload without raw
\* content being a 400 and no fallback; any other value selects the template
\* branch, whose message has no raw_mime. Exactly one branch runs.
C5_ExactlyOneBranch ==
    (ctx # PyNone) =>
        /\ calls.extract + calls.render <= 1
        /\ PastContent => calls.extract + calls.render = 1
        /\ NamesMimeType(ctx) =>
              /\ calls.render = 0
              /\ PastContent => calls.extract = 1
              /\ (PastContent /\ ~Truthy(raw_mime)) =>
                    /\ disp = "MissingPayload"
                    /\ response.status = 400
                    /\ ~Built
              /\ Built => msg.raw_mime = raw_mime /\ Truthy(raw_mime)
        /\ ~NamesMimeType(ctx) =>
              /\ calls.extract = 0
              /\ PastContent => calls.render = 1
              /\ raw_mime = PyNone
              /\ Built => msg.raw_mime = PyNone

\* " Multipart/MIXED\n" took the raw-MIME branch, found no raw content and
\* answered 400 without rendering
C5_Witness ==
    /\ pc = "done"
    /\ ctx # PyNone
    /\ ctx.datacontenttype = PyStr(S_Multipart_MIXED_padded)
    /\ disp = "MissingPayload"
    /\ calls.extract = 1
    /\ calls.render = 0

\* C6: each of to, cc, bcc is the list resolved from the event when that list
\* is non-empty and the configured list of that field otherwise, whatever the
\* other two fields resolved to.
C6_PerFieldFallback ==
    Resolved =>
        LET ev == _recipients_from_event(ctx) IN
        /\ rcpt.to  = (IF ev.to  # <<>> THEN ev.to  ELSE settings.email_to)
        /\ rcpt.cc  = (IF ev.cc  # <<>> THEN ev.cc  ELSE settings.email_cc)
        /\ rcpt.bcc = (IF ev.bcc # <<>> THEN ev.bcc ELSE settings.email_bcc)
        /\ Built => msg.to = rcpt.to /\ msg.cc = rcpt.cc /\ msg.bcc = rcpt.bcc

\* the event supplied to but not cc: the message has the event's to and the
\* configured cc
C6_Witness ==
    /\ Resolved
    /\ Built
    /\ msg.to = <<Addr("a", "x"), Addr("b", "y")>>
    /\ ctx.emailcc = PyNone
    /\ msg.cc = <<Addr("c", "s")>>
    /\ settings.email_to = <<Addr("t", "s")>>

\* the list the configuration holds for a recipient attribute
Configured(s, f) ==
    CASE f = "emailto"  -> s.email_to
      [] f = "emailcc"  -> s.email_cc
      [] f = "emailbcc" -> s.email_bcc

Resolution(r, f) ==
    CASE f = "emailto"  -> r.to
      [] f = "emailcc"  -> r.cc
      [] f = "emailbcc" -> r.bcc

\* C7: when no attribute supplies a recipient field, the recipients come from
\* the key of the same name in the data mapping; the configured list is used
\* only when that key yields nothing.
C7_PayloadSuppliesRecipients ==
    (Resolved /\ ctx.data.t = "dict") =>
        \A f \in {"emailto", "emailcc", "emailbcc"} :
            (ctx[f] = PyNone /\ f \in DOMAIN ctx.data.d) =>
                Resolution(rcpt, f) =
                    ListOr(_parse_recipients(ctx.data.d[f]), Configured(settings, f))

-----------------------------------------------------------------------------
(* Properties of _parse_recipients, checked under SpecParse *)

HasComma(str) == \E i \in DOMAIN str : str[i] = ","

\* C8 as stated: parsing the comma-joined result of a parse gives the same
\* list, for every string and every list.
C8_ParseIdempotent ==
    fnPc = "rejoined" => fnOut2 = fnOut

\* C8 amended: parsing the comma-joined result of a parse gives the same list,
\* order and multiplicity kept, for every string and for every list none of
\* whose stringified elements contains a comma.
C8_ParseIdempotentCommaFree ==
    (/\ fnPc = "rejoined"
     /\ fnArg.t = "list" => \A i \in DOMAIN fnArg.l : ~HasComma(StrOf(fnArg.l[i])))
        => fnOut2 = fnOut

\* "a@x.com, b@y.com ," parsed to two addresses, joined to a different string
\* and parsed to the same two addresses again
C8_Witness ==
    /\ fnPc = "rejoined"
    /\ fnArg = PyStr(S_example)
    /\ Len(fnOut) = 2
    /\ Join(fnOut, ",") # fnArg.s
    /\ fnOut2 = fnOut

Trimmed(str) ==
    /\ str # <<>>
    /\ str[1] \notin Whitespace
    /\ str[Len(str)] \notin Whitespace

HasText(seg) == \E i \in DOMAIN seg : seg[i] \notin Whitespace

\* str is seg without the whitespace around it
IsTrimOf(str, seg) ==
    /\ Trimmed(str)
    /\ \E a \in 0..Len(seg) :
          /\ a + Len(str) <= Len(seg)
          /\ SubSeq(seg, a + 1, a + Len(str)) = str
          /\ \A k \in 1..a : seg[k] \in Whitespace
          /\ \A k \in (a + Len(str) + 1)..Len(seg) : seg[k] \in Whitespace

\* out holds, in order, the trimmed form of every segment that has text
KeepsTextSegments(segs, out) ==
    LET kept == {i \in DOMAIN segs : HasText(segs[i])} IN
    /\ Len(out) = Cardinality(kept)
    /\ \A i \in kept : IsTrimOf(out[Cardinality({k \in kept : k <= i})], segs[i])

\* segs are the pieces of str between its commas
CommaSegments(segs, str) ==
    /\ Join(segs, ",") = str
    /\ \A i \in DOMAIN segs : ~HasComma(segs[i])

\* C9: None or "" gives []; a list gives its elements stringified and trimmed,
\* empty ones dropped; a string gives its comma-separated segments trimmed,
\* empty ones dropped; any other type gives []. Every element of the result is
\* trimmed and non-empty, in input order with duplicates kept, and
\* "a@x.com, b@y.com ," gives ["a@x.com", "b@y.com"].
C9_ParsingRule ==
    fnPc # "arg" =>
        /\ \A i \in DOMAIN fnOut : Trimmed(fnOut[i])
        /\ CASE fnArg.t = "none" -> fnOut = <<>>
             [] fnArg.t = "str" ->
                   IF fnArg.s = <<>> THEN fnOut = <<>>
                   ELSE LET segs == Split(fnArg.s, ",") IN
                        /\ CommaSegments(segs, fnArg.s)
                        /\ KeepsTextSegments(segs, fnOut)
             [] fnArg.t = "list" -> KeepsTextSegments(StrEach(fnArg.l), fnOut)
             [] OTHER -> fnOut = <<>>
        /\ fnArg = PyStr(S_example) =>
              fnOut = << <<"a", "@", "x", ".", "c", "o", "m">>,
                         <<"b", "@", "y", ".", "c", "o", "m">> >>

\* a string with a padded duplicate and an empty segment: "a, a,,"
C9_Witness ==
    /\ fnPc = "parsed"
    /\ fnArg = PyStr(<<"a", ",", " ", "a", ",">>)
    /\ fnOut = << <<"a">>, <<"a">> >>

-----------------------------------------------------------------------------
(* Properties of _extract_raw_mime, checked under SpecExtract *)

KeyOrder == <<"raw_mime", "mime", "message">>

\* C10: for a mapping payload the raw message is the value of the first of
\* raw_mime, mime, message that holds a non-empty string (one with text in
\* it), other values being passed over; extraction fails only if none of the
\* three does.
C10_FirstNonEmptyStringWins ==
    (fnPc = "extracted" /\ fnArg.t = "dict") =>
        LET d == fnArg.d
            usable == {i \in DOMAIN KeyOrder :
                          /\ KeyOrder[i] \in DOMAIN d
                          /\ d[KeyOrder[i]].t = "str"
                          /\ HasText(d[KeyOrder[i]].s)}
        IN  IF usable = {} THEN fnOut = PyNone
            ELSE fnOut = d[KeyOrder[CHOOSE i \in usable : \A j \in usable : i <= j]]

-----------------------------------------------------------------------------
(* Properties of handle, checked under Spec (continued) *)

\* C11: every message handle() builds, in either branch, carries the headers
\* X-CloudEvent-ID, X-CloudEvent-Type and X-CloudEvent-Source, with the id,
\* type and source of the event whose context supplied its recipients.
C11_TracingHeaders ==
    Built =>
        /\ {"X-CloudEvent-ID", "X-CloudEvent-Type", "X-CloudEvent-Source"}
              \subseteq DOMAIN msg.headers
        /\ msg.headers["X-CloudEvent-ID"] = ce.attrs["id"]
        /\ msg.headers["X-CloudEvent-Type"] = ce.attrs["type"]
        /\ msg.headers["X-CloudEvent-Source"] = ce.attrs["source"]
        /\ ctx.id = ce.attrs["id"]
        /\ ctx.type = ce.attrs["type"]
        /\ ctx.source = ce.attrs["source"]
        /\ msg.to = ListOr(_parse_recipients(ctx.emailto), settings.email_to)

\* the second event's raw-MIME message carries that event's id
C11_Witness ==
    /\ Built
    /\ msg.raw_mime # PyNone
    /\ ce.attrs["id"] = PyStr(<<"i", "d", "2">>)
    /\ msg.headers["X-CloudEvent-ID"] = PyStr(<<"i", "d", "2">>)
    /\ msg.headers["X-CloudEvent-Source"] = PyStr(<<"s", "r", "c">>)

Transmits(call, content) == \E j \in DOMAIN call.contents : call.contents[j] = content

\* C12: send() supports both message shapes: for a message with raw_mime the
\* raw MIME content is what goes to the SMTP backend; for a templated message
\* its subject and its text or html content go there.
C12_BothShapesTransmitted ==
    \A i \in DOMAIN smtp :
        IF sent[i].raw_mime # PyNone
        THEN Transmits(smtp[i], sent[i].raw_mime)
        ELSE /\ smtp[i].subject = sent[i].subject
             /\ Truthy(sent[i].html) => Transmits(smtp[i], sent[i].html)
             /\ (~Truthy(sent[i].html) /\ Truthy(sent[i].text)) =>
                   Transmits(smtp[i], sent[i].text)

\* C13: if TemplateRenderer(settings) or render(ctx) raises, the response is
\* the 500, no message is built and no delivery client is built or called.
C13_RenderFailureStops ==
    raised \in {"TemplateRenderer", "render"} =>
        /\ pc = "done"
        /\ response = [body |-> "Template rendering failed", status |-> 500]
        /\ ~Built
        /\ calls.create = 0
        /\ calls.send = 0
        /\ sent = <<>>
        /\ smtp = <<>>

\* render() raised for a request that had recipients and no dry-run
C13_Witness ==
    /\ raised = "render"
    /\ calls.render = 1
    /\ rcpt.to # <<>>
    /\ ~settings.dry_run
    /\ response.status = 500

\* the envelope of the request lacks one of id, source, type
LacksRequired == ~({"id", "source", "type"} \subseteq DOMAIN ce.attrs)

\* the response is the 400 of lines 122 and 128 and nothing else was done
RejectedAsInvalid ==
    /\ pc = "done"
    /\ response = [body |-> "Invalid CloudEvent", status |-> 400]
    /\ matches = "unasked"
    /\ calls = NoCalls
    /\ sent = <<>>
    /\ ~Built

\* C14: if the envelope cannot be parsed, or id, source or type is absent, the
\* response is the 400 and no filter, rendering or delivery takes place.
C14_MalformedEventRejected ==
    /\ (pc \notin {"idle", "from_http"} /\ ~ce.parse_ok) => RejectedAsInvalid
    /\ (pc \notin {"idle", "from_http", "ctx"} /\ ce.parse_ok /\ LacksRequired)
          => RejectedAsInvalid

\* an envelope that parses but has no type was answered with the 400
C14_Witness ==
    /\ pc = "done"
    /\ ce.parse_ok
    /\ "type" \notin DOMAIN ce.attrs
    /\ {"id", "source"} \subseteq DOMAIN ce.attrs
    /\ response.status = 400

\* C15: the response is the 502 exactly when create_email_client or send()
\* raised, and a send that succeeded is answered with the 202.
C15_DeliveryFailureIs502 ==
    pc = "done" =>
        /\ response.status = 502 <=> raised \in {"create_email_client", "send"}
        /\ response.status = 502 => response.body = "Email send failed"
        /\ (calls.send = 1 /\ raised = "none") =>
              /\ response = [body |-> "", status |-> 202]
              /\ disp = "Sent"

\* send() raised and the response is the 502
C15_Witness ==
    /\ pc = "done"
    /\ raised = "send"
    /\ calls.send = 1
    /\ response = [body |-> "Email send failed", status |-> 502]

-----------------------------------------------------------------------------
(* handle() runs under way at once (main.py 111-235): the settings each run
   loads, writes at line 190 and hands to the renderer, and the configuration
   of the process they share *)

\* the locals of the one-request run, which the runs of this section leave
localVars == <<pc, settings, ce, ctx, rcpt, raw_mime, msg, response, disp,
               calls, sent, matches, raised, smtp>>

\* a payload with inline templates of the event's own
S_inline_payload ==
    PyDict(("templates_inline_json" :> PyStr(<<"{", "}">>))
           @@ ("message" :> PyStr(<<"M", "S", "G">>)))

\* events of both branches, with and without inline templates
InFlightEnvelopes ==
    {MkEnvelope(PyStr(<<"i", "d", "1">>), PyStr(S_two_padded), Absent, Absent,
                dct, data) :
        dct \in {Absent, PyStr(S_multipart_mixed)},
        data \in {PyNone, S_inline_payload, PyDict("raw_mime" :> PyStr(S_MIME))}}

\* lines 113-128: run r loads the settings and builds the context of its event
ConcReceive(r) ==
    /\ inflight[r].pc = "idle"
    /\ \E e \in InFlightEnvelopes :
          inflight' = [inflight EXCEPT ![r] =
                          [pc        |-> "running",
                           settings  |-> load_settings(config),
                           ctx       |-> _ctx_from_cloudevent(e),
                           rendered  |-> FALSE,
                           templates |-> PyNone]]
    /\ UNCHANGED <<localVars, config, fnVars>>

\* lines 135-186: run r returns before line 189 (the filter rejected the event,
\* or the event is of the raw-MIME branch, which returns by line 186)
ConcLeave(r) ==
    /\ inflight[r].pc = "running"
    /\ inflight' = [inflight EXCEPT ![r].pc = "done"]
    /\ UNCHANGED <<localVars, config, fnVars>>

\* lines 189-190: run r, in the template branch, assigns the inline templates
\* of its event to its settings object
ConcOverride(r) ==
    /\ inflight[r].pc = "running"
    /\ ~IsMimeMode(inflight[r].ctx)
    /\ inflight' = [inflight EXCEPT
                       ![r].settings =
                           WithInlineTemplates(inflight[r].ctx,
                                               SettingsObject(inflight[r].settings, config)),
                       ![r].pc = "render"]
    /\ config' = StoreInlineTemplates(inflight[r].ctx, inflight[r].settings, config)
    /\ UNCHANGED <<localVars, fnVars>>

\* lines 192-235: TemplateRenderer(settings) reads the templates of the settings
\* object of run r, and the run goes on to its return
ConcRender(r) ==
    /\ inflight[r].pc = "render"
    /\ inflight' = [inflight EXCEPT
                       ![r].templates =
                           SettingsObject(inflight[r].settings, config).templates_inline_json,
                       ![r].rendered = TRUE,
                       ![r].pc = "done"]
    /\ UNCHANGED <<localVars, config, fnVars>>

\* the response of run r goes back; its locals are gone
ConcReturn(r) ==
    /\ inflight[r].pc = "done"
    /\ inflight' = [inflight EXCEPT ![r] = NotRunning]
    /\ UNCHANGED <<localVars, config, fnVars>>

NextConc ==
    \E r \in Requests :
        \/ ConcReceive(r)
        \/ ConcLeave(r)
        \/ ConcOverride(r)
        \/ ConcRender(r)
        \/ ConcReturn(r)

SpecConc == Init /\ [][NextConc]_vars

\* the event of context c carries an inline-template override
CarriesOverride(c) ==
    /\ c.data.t = "dict"
    /\ "templates_inline_json" \in DOMAIN c.data.d

\* the renderer of run r was given the override of the event of r if it
\* carries one, and the configured templates otherwise
RendersWithOwnTemplates(r) ==
    inflight[r].rendered =>
        inflight[r].templates =
            (IF CarriesOverride(inflight[r].ctx)
             THEN inflight[r].ctx.data.d["templates_inline_json"]
             ELSE config.templates_inline_json)

\* C16: an inline-template override supersedes the configured templates for
\* the request that carries it only: no step of any request changes what the
\* process is configured with, and every request without an override, be it
\* under way together with one that carries an override or after it, renders
\* with the configured templates.
C16_OverrideIsRequestScoped ==
    /\ [][config' = config]_vars
    /\ [](\A r \in Requests : RendersWithOwnTemplates(r))

\* one request is past line 190 with its override in its settings and has not
\* returned, and another, which carries none, has rendered with the templates
\* the process is configured with
C16_Witness ==
    \E r1 \in Requests, r2 \in Requests :
        /\ r1 # r2
        /\ inflight[r1].pc = "render"
        /\ CarriesOverride(inflight[r1].ctx)
        /\ inflight[r1].settings.templates_inline_json = PyStr(<<"{", "}">>)
        /\ inflight[r2].rendered
        /\ ~CarriesOverride(inflight[r2].ctx)
        /\ inflight[r2].templates = PyStr(<<"{", "c", "}">>)
        /\ config.templates_inline_json = PyStr(<<"{", "c", "}">>)

\* what holds in every state of a request about its calls
SingleAttempt ==
    /\ calls.render <= 1
    /\ calls.create <= 1
    /\ calls.send <= 1
    /\ Len(sent) <= 1
    /\ Len(smtp) <= 1
    /\ raised # "none" => pc = "done"
    /\ calls.send = 1 =>
          /\ pc = "done"
          /\ Built
          /\ sent = <<msg>>
          /\ msg.to = rcpt.to /\ msg.cc = rcpt.cc /\ msg.bcc = rcpt.bcc
          /\ SomeRecipient(msg)
          /\ ~settings.dry_run
          /\ msg.raw_mime # PyNone \/ calls.render = 1

\* the step that calls send() starts from a message that is built and decided
\* on, leaves it and the recipients as they are, and ends the request
SendComesLast ==
    calls'.send > calls.send =>
        /\ pc \in {"send_raw", "send_template"}
        /\ Built
        /\ msg' = msg
        /\ rcpt' = rcpt
        /\ SomeRecipient(msg)
        /\ ~settings.dry_run
        /\ pc' = "done"

\* C18: within one request the renderer is called at most once and send() at
\* most once, neither is retried after a failure, and recipients, content and
\* the no-recipients and dry-run checks are all done before the one send().
C18_SingleAttempt ==
    /\ []SingleAttempt
    /\ [][SendComesLast]_vars

\* send() raised on a rendered message and was not called again
C18_Witness ==
    /\ pc = "done"
    /\ raised = "send"
    /\ calls.render = 1
    /\ calls.send = 1
    /\ Len(smtp) = 1

\* C19: for a request the filter let through, content comes before the
\* recipient and dry-run checks: a payload without raw MIME is answered 400 and
\* a renderer that raises 500 whatever the recipients and dry-run are, and the
\* renderer is called on every such request of the template branch.
C19_ContentErrorsFirst ==
    PastContent =>
        /\ (NamesMimeType(ctx) /\ ~Truthy(_extract_raw_mime(ctx))) =>
              /\ disp = "MissingPayload"
              /\ response = [body |-> "Missing raw MIME payload in CloudEvent data",
                             status |-> 400]
        /\ ~NamesMimeType(ctx) =>
              /\ calls.render = 1
              /\ raised \in {"TemplateRenderer", "render"} =>
                    /\ disp = "RenderFailed"
                    /\ response.status = 500

\* the renderer raised, and the answer is the 500, for a request with dry-run
\* on and no recipient at all
C19_Witness ==
    /\ PastContent
    /\ raised = "render"
    /\ response.status = 500
    /\ settings.dry_run
    /\ rcpt = NoRecipients

-----------------------------------------------------------------------------
(* _ctx_from_cloudevent applied to every envelope of a bounded set *)

\* reserved attributes an envelope may or may not carry
OptionalAttrs ==
    {"specversion", "subject", "time", "dataschema", "datacontenttype",
     "emailto", "emailcc", "emailbcc"}

\* attribute names of the caller's own
ExtensionNames == {"tenant", "email_to", "priority"}

\* a string, a number and a nested structure
ExtensionValues ==
    {PyStr(<<"v">>), PyInt(7), PyDict("k" :> PyList(<<PyInt(1)>>))}

\* the envelope with id, source and type, the optional attributes of opt and
\* the extension attributes ext assigns a value
MkAttrs(opt, ext) ==
    LET names == {"id", "source", "type"} \cup opt
                    \cup {k \in ExtensionNames : ext[k] # Absent}
        held == [k \in names |->
                    IF k \in ExtensionNames THEN ext[k] ELSE PyStr(<<"r">>)]
    IN  [parse_ok    |-> TRUE,
         attrs       |-> held,
         _attributes |-> PyDict(held),
         data        |-> PyNone]

CtxArgs ==
    {MkAttrs(opt, ext) :
        opt \in SUBSET OptionalAttrs,
        ext \in [ExtensionNames -> ExtensionValues \cup {Absent}]}

InitCtx ==
    /\ ReqInit
    /\ config = PyNone
    /\ fnPc = "arg"
    /\ fnArg \in CtxArgs
    /\ fnOut = PyNone
    /\ fnOut2 = PyNone
    /\ inflight = NoneInFlight

\* _ctx_from_cloudevent(ce)
CtxOnce ==
    /\ fnPc = "arg"
    /\ fnOut' = _ctx_from_cloudevent(fnArg)
    /\ fnPc' = "built"
    /\ UNCHANGED <<fnArg, fnOut2>>
    /\ UNCHANGED <<reqVars, inflight>>

NextCtx == CtxOnce

SpecCtx == InitCtx /\ [][NextCtx]_vars

-----------------------------------------------------------------------------
(* Properties of _ctx_from_cloudevent, checked under SpecCtx *)

\* the reserved attribute names C17 lists
ReservedNames ==
    {"id", "source", "type", "specversion", "subject", "time", "dataschema",
     "datacontenttype", "data"} \cup {"emailto", "emailcc", "emailbcc"}

\* C17: for an envelope with id, source and type, extensions holds exactly the
\* attributes outside the reserved set, each under its own name with its value
\* unchanged.
C17_ExtensionsAreTheRest ==
    fnPc = "built" =>
        /\ DOMAIN fnOut.extensions = (DOMAIN fnArg.attrs) \ ReservedNames
        /\ \A k \in DOMAIN fnOut.extensions : fnOut.extensions[k] = fnArg.attrs[k]

\* an envelope with recipient attributes and three extensions, one of them a
\* nested structure
C17_Witness ==
    /\ fnPc = "built"
    /\ {"emailto", "emailcc", "subject"} \subseteq DOMAIN fnArg.attrs
    /\ DOMAIN fnOut.extensions = ExtensionNames
    /\ fnOut.extensions["tenant"] = PyDict("k" :> PyList(<<PyInt(1)>>))
    /\ fnOut.extensions["priority"] = PyInt(7)

====
